---- MODULE Spec2Model ----
(***************************************************************************)
(* Knowledge Graph Explorer: the AI-service dispatcher and its adapters,   *)
(* the key validator, the topic extractor, the localStorage wrapper and    *)
(* the node chat card, as state machines.                                  *)
(*                                                                         *)
(* JavaScript strings on which the code works character by character are   *)
(* sequences of one-character strings; opaque strings (model names,        *)
(* provider names, storage keys) are TLA+ strings.                         *)
(***************************************************************************)
EXTENDS Integers, Sequences, FiniteSets, TLC

(***************************************************************************)
(* Characters and the String.prototype methods the code uses.              *)
(***************************************************************************)
UpperLetters ==
    <<"A", "B", "C", "D", "E", "F", "G", "H", "I", "J", "K", "L", "M",
      "N", "O", "P", "Q", "R", "S", "T", "U", "V", "W", "X", "Y", "Z">>

LowerLetters ==
    <<"a", "b", "c", "d", "e", "f", "g", "h", "i", "j", "k", "l", "m",
      "n", "o", "p", "q", "r", "s", "t", "u", "v", "w", "x", "y", "z">>

IsUpper(c) == \E i \in DOMAIN UpperLetters : UpperLetters[i] = c

IsLetter(c) == IsUpper(c) \/ \E i \in DOMAIN LowerLetters : LowerLetters[i] = c

\* the characters of the model's alphabet that \s and trim() treat as space
IsSpace(c) == c \in {" ", "\t", "\n", "\r"}

LowerChar(c) ==
    IF IsUpper(c)
    THEN LowerLetters[CHOOSE i \in DOMAIN UpperLetters : UpperLetters[i] = c]
    ELSE c

toLowerCase(s) == [i \in DOMAIN s |-> LowerChar(s[i])]

\* s.startsWith(p)
startsWith(s, p) == Len(s) >= Len(p) /\ SubSeq(s, 1, Len(p)) = p

\* s.includes(p)
includes(s, p) ==
    \E i \in 1..(Len(s) + 1) :
        i + Len(p) - 1 <= Len(s) /\ SubSeq(s, i, i + Len(p) - 1) = p

\* the least element of a non-empty set of integers
Least(S) == CHOOSE x \in S : \A y \in S : x <= y

\* the greatest element of a non-empty set of integers
Greatest(S) == CHOOSE x \in S : \A y \in S : x >= y

\* s.trim(): from the first to the last character that is not white space
trim(s) ==
    LET solid == {i \in DOMAIN s : ~IsSpace(s[i])}
    IN  IF solid = {} THEN <<>> ELSE SubSeq(s, Least(solid), Greatest(solid))

\* s.split('\n') from index i on: always at least one piece
RECURSIVE SplitFrom(_, _)
SplitFrom(s, i) ==
    LET breaks == {k \in i..Len(s) : s[k] = "\n"}
    IN  IF breaks = {} THEN <<SubSeq(s, i, Len(s))>>
        ELSE <<SubSeq(s, i, Least(breaks) - 1)>> \o SplitFrom(s, Least(breaks) + 1)

splitLines(s) == SplitFrom(s, 1)

\* array.slice(0, n)
sliceTo(a, n) == SubSeq(a, 1, IF Len(a) < n THEN Len(a) ELSE n)

\* x repeated n times
Repeat(x, n) == [i \in 1..n |-> x]

(***************************************************************************)
(* validateAPIKey(service, apiKey)                                         *)
(***************************************************************************)
SK_PREFIX == <<"s", "k", "-">>

MIN_KEY_LENGTH == 20

\* validateAPIKey without the prefix test of the 'openai' case
validateAPIKey_anyPrefix(service, apiKey) ==
    IF apiKey = <<>> \/ Len(trim(apiKey)) = 0 THEN FALSE
    ELSE CASE service \in {"openai", "gemini"} -> Len(apiKey) > MIN_KEY_LENGTH
           [] OTHER -> FALSE

\* validateAPIKey without the trim() test of its first line
validateAPIKey_untrimmed(service, apiKey) ==
    IF apiKey = <<>> THEN FALSE
    ELSE CASE service = "openai" ->
                  startsWith(apiKey, SK_PREFIX) /\ Len(apiKey) > MIN_KEY_LENGTH
           [] service = "gemini" -> Len(apiKey) > MIN_KEY_LENGTH
           [] OTHER -> FALSE

\* validateAPIKey with the 'gemini' rule as the default case
validateAPIKey_defaultRule(service, apiKey) ==
    IF apiKey = <<>> \/ Len(trim(apiKey)) = 0 THEN FALSE
    ELSE CASE service = "openai" ->
                  startsWith(apiKey, SK_PREFIX) /\ Len(apiKey) > MIN_KEY_LENGTH
           [] OTHER -> Len(apiKey) > MIN_KEY_LENGTH

validateAPIKey(service, apiKey) ==
    IF apiKey = <<>> \/ Len(trim(apiKey)) = 0 THEN FALSE
    ELSE CASE service = "openai" ->
                  startsWith(apiKey, SK_PREFIX) /\ Len(apiKey) > MIN_KEY_LENGTH
           [] service = "gemini" -> Len(apiKey) > MIN_KEY_LENGTH
           [] OTHER -> FALSE

(***************************************************************************)
(* extractRelatedTopics(content)                                           *)
(***************************************************************************)
topicKeywords ==
    << <<"r", "e", "l", "a", "t", "e", "d", " ", "t", "o">>,
       <<"c", "o", "n", "n", "e", "c", "t", "e", "d", " ", "t", "o">>,
       <<"s", "i", "m", "i", "l", "a", "r", " ", "t", "o">>,
       <<"s", "e", "e", " ", "a", "l", "s", "o">>,
       <<"t", "o", "p", "i", "c", "s", ":">>,
       <<"c", "o", "n", "c", "e", "p", "t", "s", ":">> >>

MAX_TOPICS == 5

MIN_TOPIC_LENGTH == 2

\* the test on a line without toLowerCase()
lineHasKeyword_caseSensitive(line) ==
    \E k \in DOMAIN topicKeywords : includes(line, topicKeywords[k])

\* topicKeywords.some(keyword => line.toLowerCase().includes(keyword))
lineHasKeyword(line) ==
    \E k \in DOMAIN topicKeywords : includes(toLowerCase(line), topicKeywords[k])

\* the last index of the longest run of [a-zA-Z\s] (withSpace) or [a-zA-Z]
\* characters that starts at index i (i - 1 when the run is empty)
IsTopicChar(c) == IsLetter(c) \/ IsSpace(c)

RunEnd(s, i, withSpace) ==
    LET stops == {k \in i..Len(s) :
                     ~(IF withSpace THEN IsTopicChar(s[k]) ELSE IsLetter(s[k]))}
    IN  IF stops = {} THEN Len(s) ELSE Least(stops) - 1

\* the indices from i on that hold an uppercase letter
UppersFrom(s, i) == {k \in i..Len(s) : IsUpper(s[k])}

\* line.match(/[A-Z][a-zA-Z\s]+(?:,|\.|$)/g), scanning from index `from`.  The
\* greedy run is followed by a character outside the class (or by the end),
\* so no shorter run can be followed by ',', '.' or the end: backtracking
\* never produces a match the longest run does not.
RECURSIVE topicMatchesFrom(_, _)
topicMatchesFrom(line, from) ==
    IF UppersFrom(line, from) = {} THEN <<>>
    ELSE LET i == Least(UppersFrom(line, from))
             j == RunEnd(line, i + 1, TRUE)
         IN  IF j < i + 1 THEN topicMatchesFrom(line, i + 1)
             ELSE IF j = Len(line) THEN <<SubSeq(line, i, j)>>
             ELSE IF line[j + 1] \in {",", "."}
                  THEN <<SubSeq(line, i, j + 1)>> \o topicMatchesFrom(line, j + 2)
             ELSE topicMatchesFrom(line, i + 1)

NotPunct(c) == c \notin {",", "."}

\* t.replace(/[,.]/g, '').trim()
cleanTopic(t) == trim(SelectSeq(t, NotPunct))

\* the loop over the lines: the candidates pushed by the keyword lines
RECURSIVE keywordTopics(_)
keywordTopics(lines) ==
    IF lines = <<>> THEN <<>>
    ELSE LET line == Head(lines)
             found == IF lineHasKeyword(line)
                      THEN topicMatchesFrom(line, 1)
                      ELSE <<>>
         IN  [k \in DOMAIN found |-> cleanTopic(found[k])]
                 \o keywordTopics(Tail(lines))

\* content.match(/[A-Z][a-zA-Z]+/g) || [], scanning from index `from`
RECURSIVE capitalizedWordsFrom(_, _)
capitalizedWordsFrom(content, from) ==
    IF UppersFrom(content, from) = {} THEN <<>>
    ELSE LET i == Least(UppersFrom(content, from))
             j == RunEnd(content, i + 1, FALSE)
         IN  IF j < i + 1 THEN capitalizedWordsFrom(content, i + 1)
             ELSE <<SubSeq(content, i, j)>> \o capitalizedWordsFrom(content, j + 1)

LongEnoughTopic(topic) == Len(topic) > MIN_TOPIC_LENGTH

\* the fallback taken when no pushed candidate is long enough
candidateTopics_lateFallback(content) ==
    LET fromKeywords == keywordTopics(splitLines(content))
    IN  IF Len(SelectSeq(fromKeywords, LongEnoughTopic)) = 0
        THEN sliceTo(capitalizedWordsFrom(content, 1), MAX_TOPICS)
        ELSE fromKeywords

\* the topics array when the final filter is reached
candidateTopics(content) ==
    LET fromKeywords == keywordTopics(splitLines(content))
    IN  IF Len(fromKeywords) = 0
        THEN sliceTo(capitalizedWordsFrom(content, 1), MAX_TOPICS)
        ELSE fromKeywords

\* the result cut to MAX_TOPICS before the filter
extractRelatedTopics_sliceFirst(content) ==
    SelectSeq(sliceTo(candidateTopics(content), MAX_TOPICS), LongEnoughTopic)

extractRelatedTopics(content) ==
    sliceTo(SelectSeq(candidateTopics(content), LongEnoughTopic), MAX_TOPICS)

(***************************************************************************)
(* JavaScript values as far as the adapters inspect them: every value is a *)
(* record [t, v] with t its type tag.                                      *)
(***************************************************************************)
JUndefined == [t |-> "undefined", v |-> 0]

JNull == [t |-> "null", v |-> 0]

JStr(s) == [t |-> "string", v |-> s]

JNum(n) == [t |-> "number", v |-> n]

JBool(b) == [t |-> "boolean", v |-> b]

JArr(a) == [t |-> "array", v |-> a]

JObj(o) == [t |-> "object", v |-> o]

\* the outcome of evaluating an expression that threw a TypeError
JTypeError == [t |-> "TypeError", v |-> 0]

IsNullish(x) == x.t \in {"undefined", "null"}

\* ToBoolean(x), as used by || and by the conditional operator
IsTruthy(x) ==
    CASE x.t \in {"undefined", "null"} -> FALSE
      [] x.t = "string" -> Len(x.v) > 0
      [] x.t = "number" -> x.v # 0
      [] x.t = "boolean" -> x.v
      [] OTHER -> TRUE

\* x.name on a value that is neither undefined nor null
GetProp(x, name) ==
    IF x.t = "object" /\ name \in DOMAIN x.v THEN x.v[name] ELSE JUndefined

\* x[i] on a value that is neither undefined nor null
GetIndex(x, i) ==
    IF x.t = "array" /\ (i + 1) \in DOMAIN x.v THEN x.v[i + 1]
    ELSE IF x.t = "string" /\ (i + 1) \in DOMAIN x.v THEN JStr(<<x.v[i + 1]>>)
    ELSE JUndefined

\* the steps of a member chain: .name, [i], ?.name
Prop(name) == [opt |-> FALSE, isIndex |-> FALSE, name |-> name, index |-> 0]

Index(i) == [opt |-> FALSE, isIndex |-> TRUE, name |-> "", index |-> i]

OptProp(name) == [opt |-> TRUE, isIndex |-> FALSE, name |-> name, index |-> 0]

\* A member chain evaluated on x from step k on.  A plain access on
\* undefined or null throws a TypeError; an optional access (?.) on
\* undefined or null ends the whole chain with undefined.
RECURSIVE EvalChain(_, _, _)
EvalChain(x, steps, k) ==
    IF k > Len(steps) THEN x
    ELSE IF IsNullish(x)
         THEN (IF steps[k].opt THEN JUndefined ELSE JTypeError)
    ELSE EvalChain(IF steps[k].isIndex
                   THEN GetIndex(x, steps[k].index)
                   ELSE GetProp(x, steps[k].name),
                   steps, k + 1)

(***************************************************************************)
(* Text that JSON.parse is given: the empty string, text that is not JSON, *)
(* or the JSON text of a value.                                            *)
(***************************************************************************)
EmptyText == [kind |-> "empty", value |-> JUndefined]

GarbageText == [kind |-> "garbage", value |-> JUndefined]

JsonText(x) == [kind |-> "json", value |-> x]

\* JSON.parse(text): the value, or a thrown SyntaxError
JSONparse(text) ==
    IF text.kind = "json"
    THEN [threw |-> FALSE, value |-> text.value]
    ELSE [threw |-> TRUE, value |-> JUndefined]

(***************************************************************************)
(* Errors and promise outcomes                                             *)
(***************************************************************************)
MakeError(name, message) == [name |-> name, message |-> message]

NoError == MakeError("", "")

NoResponse == [content |-> <<>>, relatedTopics |-> <<>>, confidence |-> ""]

\* what fetch rejects with when the request cannot be completed
NetworkError == MakeError("TypeError", "Failed to fetch")

\* response.ok
ResponseOk(status) == status >= 200 /\ status <= 299

(***************************************************************************)
(* AI_SERVICE_CONFIG and the two adapters.  A chat call is a record:       *)
(*   service, messages  what the dispatcher was given                      *)
(*   adapter, args      the adapter the dispatcher invoked and with what   *)
(*   requests           the HTTP requests the call has issued so far       *)
(*   pc                 "fetch" (awaiting fetch), "json" (awaiting         *)
(*                      response.json()), "fulfilled" or "rejected"        *)
(*   status, body       the HTTP response, once there is one               *)
(*   value, error       the AIResponse or the error the promise ends with  *)
(***************************************************************************)
undefined == "<undefined>"

OPENAI_BASE_URL == "https://api.openai.com/v1"

GEMINI_BASE_URL == "https://generativelanguage.googleapis.com/v1beta"

OPENAI_DEFAULT_MODEL == "gpt-3.5-turbo"

GEMINI_DEFAULT_MODEL == "gemini-pro"

CONFIDENCE == "0.8"

TEMPERATURE == "0.7"

MAX_TOKENS == 1000

NoArgs == [messages |-> <<>>, apiKey |-> <<>>, model |-> ""]

NewCall(service, messages) ==
    [service |-> service, messages |-> messages,
     adapter |-> "none", args |-> NoArgs, requests |-> <<>>,
     pc |-> "rejected", status |-> 0, body |-> EmptyText,
     value |-> NoResponse, error |-> NoError]

\* the request openAIService.chat hands to fetch
openAIRequest(messages, apiKey, model) ==
    [method |-> "POST",
     url |-> OPENAI_BASE_URL \o "/chat/completions",
     headers |-> [contentType |-> "application/json",
                  authorization |-> [scheme |-> "Bearer", token |-> apiKey]],
     body |-> [model |-> model,
               messages |-> messages,
               max_tokens |-> MAX_TOKENS,
               temperature |-> TEMPERATURE]]

\* the mapping with 'assistant' as the role tested for
geminiMessages_assistantElseUser(messages) ==
    [i \in DOMAIN messages |->
        [role |-> IF messages[i].role = "assistant" THEN "model" ELSE "user",
         parts |-> <<[text |-> messages[i].content]>>]]

\* messages.map(msg => ({role: ..., parts: [{text: msg.content}]}))
geminiMessages(messages) ==
    [i \in DOMAIN messages |->
        [role |-> IF messages[i].role = "user" THEN "user" ELSE "model",
         parts |-> <<[text |-> messages[i].content]>>]]

\* the request geminiService.chat hands to fetch
geminiRequest(messages, apiKey, model) ==
    [method |-> "POST",
     url |-> GEMINI_BASE_URL \o "/models/" \o model \o ":generateContent?key=",
     queryKey |-> apiKey,
     headers |-> [contentType |-> "application/json"],
     body |-> [contents |-> geminiMessages(messages),
               generationConfig |-> [maxOutputTokens |-> MAX_TOKENS,
                                     temperature |-> TEMPERATURE]]]

\* openAIService.chat up to its first await: the default model, then fetch
openAIService_chat(call, messages, apiKey, model) ==
    LET m == IF model = undefined THEN OPENAI_DEFAULT_MODEL ELSE model
    IN  [call EXCEPT !.adapter = "openai",
                     !.args = [messages |-> messages, apiKey |-> apiKey,
                               model |-> model],
                     !.requests = Append(@, openAIRequest(messages, apiKey, m)),
                     !.pc = "fetch"]

\* geminiService.chat up to its first await
geminiService_chat(call, messages, apiKey, model) ==
    LET m == IF model = undefined THEN GEMINI_DEFAULT_MODEL ELSE model
    IN  [call EXCEPT !.adapter = "gemini",
                     !.args = [messages |-> messages, apiKey |-> apiKey,
                               model |-> model],
                     !.requests = Append(@, geminiRequest(messages, apiKey, m)),
                     !.pc = "fetch"]

UnsupportedServiceError(name) ==
    MakeError("Error", "Unsupported AI service: " \o name)

\* the dispatcher with the two case labels exchanged
aiServiceDispatcher_chat_crossed(service, messages) ==
    CASE service.name = "gemini" ->
             openAIService_chat(NewCall(service, messages), messages,
                                service.apiKey, service.model)
      [] service.name = "openai" ->
             geminiService_chat(NewCall(service, messages), messages,
                                service.apiKey, service.model)
      [] OTHER ->
             [NewCall(service, messages) EXCEPT
                 !.error = UnsupportedServiceError(service.name)]

\* the dispatcher without its default branch: anything that is not gemini
\* is sent to OpenAI
aiServiceDispatcher_chat_defaulting(service, messages) ==
    IF service.name = "gemini"
    THEN geminiService_chat(NewCall(service, messages), messages,
                            service.apiKey, service.model)
    ELSE openAIService_chat(NewCall(service, messages), messages,
                            service.apiKey, service.model)

\* aiServiceDispatcher.chat(service, messages) up to the first await of the
\* adapter it selects, or to its own throw
aiServiceDispatcher_chat(service, messages) ==
    CASE service.name = "openai" ->
             openAIService_chat(NewCall(service, messages), messages,
                                service.apiKey, service.model)
      [] service.name = "gemini" ->
             geminiService_chat(NewCall(service, messages), messages,
                                service.apiKey, service.model)
      [] OTHER ->
             [NewCall(service, messages) EXCEPT
                 !.error = UnsupportedServiceError(service.name)]

\* throw new Error(`OpenAI API error: ${response.status}`) and its Gemini twin
UpstreamError(adapter, status) ==
    MakeError("Error",
              (IF adapter = "openai" THEN "OpenAI" ELSE "Gemini")
                  \o " API error: " \o ToString(status))

\* the adapter without its `if (!response.ok)` test
adapterOnResponse_unchecked(call, status, body) ==
    [call EXCEPT !.pc = "json", !.status = status, !.body = body]

\* The adapter resumes from `await fetch(...)` with a response: a
\* non-success status is thrown (the catch block logs and rethrows it), a
\* success status goes on to `await response.json()`.
adapterOnResponse(call, status, body) ==
    IF ~ResponseOk(status)
    THEN [call EXCEPT !.pc = "rejected", !.status = status,
                      !.error = UpstreamError(call.adapter, status)]
    ELSE [call EXCEPT !.pc = "json", !.status = status, !.body = body]

\* the adapter trying the request again after a network failure
adapterOnNetworkFailure_retry(call) ==
    [call EXCEPT !.requests = Append(@, call.requests[1])]

\* The adapter resumes from `await fetch(...)` with a rejection.
adapterOnNetworkFailure(call) ==
    [call EXCEPT !.pc = "rejected", !.error = NetworkError]

\* data.choices[0]?.message?.content
openAIContentPath ==
    <<Prop("choices"), Index(0), OptProp("message"), OptProp("content")>>

\* data.candidates[0]?.content?.parts[0]?.text
geminiContentPath ==
    <<Prop("candidates"), Index(0), OptProp("content"), OptProp("parts"),
      Index(0), OptProp("text")>>

contentPath(adapter) ==
    IF adapter = "openai" THEN openAIContentPath ELSE geminiContentPath

\* <path> || ''
contentOf(adapter, data) ==
    LET x == EvalChain(data, contentPath(adapter), 1)
    IN  IF x.t = "TypeError" THEN x
        ELSE IF IsTruthy(x) THEN x
        ELSE JStr(<<>>)

\* the response with the topics taken from the capitalized words alone
MakeResponse_capitalizedOnly(content) ==
    [content |-> content,
     relatedTopics |-> sliceTo(capitalizedWordsFrom(content, 1), MAX_TOPICS),
     confidence |-> CONFIDENCE]

\* { content, relatedTopics, confidence: 0.8 }
MakeResponse(content) ==
    [content |-> content,
     relatedTopics |-> extractRelatedTopics(content),
     confidence |-> CONFIDENCE]

\* The adapter resumes from `await response.json()`: a body that is not
\* JSON rejects; otherwise the content is picked out of the data and the
\* topics extracted.  content.split exists on strings only.
adapterOnJson(call) ==
    LET parsed == JSONparse(call.body)
        content == contentOf(call.adapter, parsed.value)
    IN  IF parsed.threw
        THEN [call EXCEPT !.pc = "rejected",
                          !.error = MakeError("SyntaxError", "Unexpected token")]
        ELSE IF content.t = "TypeError"
        THEN [call EXCEPT !.pc = "rejected",
                          !.error = MakeError("TypeError",
                                              "Cannot read properties of undefined")]
        ELSE IF content.t # "string"
        THEN [call EXCEPT !.pc = "rejected",
                          !.error = MakeError("TypeError",
                                              "content.split is not a function")]
        ELSE [call EXCEPT !.pc = "fulfilled", !.value = MakeResponse(content.v)]

(***************************************************************************)
(* utils/storage.ts: the localStorage wrapper and the four slots.  The     *)
(* browser's store maps each key to the item getItem returns: NoItem (null)*)
(* or a text.  A wrapper call ends with [threw, value].                    *)
(***************************************************************************)
STORAGE_KEYS ==
    [GRAPH_DATA |-> "knowledge_graph_data",
     CHAT_HISTORY |-> "chat_history",
     AI_SERVICES |-> "ai_services",
     SETTINGS |-> "app_settings"]

StorageKeys ==
    {STORAGE_KEYS.GRAPH_DATA, STORAGE_KEYS.CHAT_HISTORY,
     STORAGE_KEYS.AI_SERVICES, STORAGE_KEYS.SETTINGS}

NoItem == [kind |-> "none", value |-> JUndefined]

Returned(x) == [threw |-> FALSE, value |-> x]

Thrown == [threw |-> TRUE, value |-> JUndefined]

\* a Date value: the instant it holds, as its ISO string
JDate(instant) == [t |-> "date", v |-> instant]

\* Date.prototype.toJSON: JSON.stringify writes a Date as its ISO string
dateToJSON(d) == IF d.t = "date" THEN JStr(d.v) ELSE d

\* what JSON.stringify writes for a chat session: its dates and those of
\* its messages as strings
sessionToJSON(session) ==
    [session EXCEPT
        !.createdAt = dateToJSON(@),
        !.updatedAt = dateToJSON(@),
        !.messages = [i \in DOMAIN @ |->
                         [@[i] EXCEPT !.timestamp = dateToJSON(@)]]]

\* the value whose text JSON.stringify writes: the value itself, but for
\* the Date fields it holds
toJSON(x) ==
    IF x.t = "array" /\ \A i \in DOMAIN x.v : "createdAt" \in DOMAIN x.v[i]
    THEN JArr([i \in DOMAIN x.v |-> sessionToJSON(x.v[i])])
    ELSE x

\* JSON.stringify(value): the JSON text of the value
JSONstringify(x) == JsonText(toJSON(x))

\* localStorage.get without its try/catch
localStorage_get_uncaught(st, key) ==
    LET item == st[key]
    IN  IF item.kind \in {"none", "empty"} THEN Returned(JNull)
        ELSE IF JSONparse(item).threw THEN Thrown
        ELSE Returned(JSONparse(item).value)

\* localStorage.get(key): `item ? JSON.parse(item) : null`, and null when
\* anything in the try block throws
localStorage_get(st, key) ==
    LET item == st[key]
    IN  IF item.kind \in {"none", "empty"} THEN Returned(JNull)
        ELSE IF JSONparse(item).threw THEN Returned(JNull)
        ELSE Returned(JSONparse(item).value)

\* a value that refers to itself: JSON.stringify throws a TypeError on it
JCyclic == [t |-> "cyclic", v |-> 0]

stringifyThrows(x) == x.t = "cyclic"

\* the underlying write of localStorage.set fails: JSON.stringify throws, or
\* setItem throws because the quota is used up
writeFails(value, quotaLeft) == stringifyThrows(value) \/ ~quotaLeft

\* localStorage.set without its try/catch
localStorage_setCall_uncaught(st, key, value, quotaLeft) ==
    IF writeFails(value, quotaLeft)
    THEN [threw |-> TRUE, store |-> st]
    ELSE [threw |-> FALSE, store |-> [st EXCEPT ![key] = JSONstringify(value)]]

\* localStorage.set(key, value): how the call ends and the store it leaves;
\* whatever the try block throws is caught and logged
localStorage_setCall(st, key, value, quotaLeft) ==
    IF writeFails(value, quotaLeft)
    THEN [threw |-> FALSE, store |-> st]
    ELSE [threw |-> FALSE, store |-> [st EXCEPT ![key] = JSONstringify(value)]]

\* localStorage.set(key, value): the store after the call
localStorage_set(st, key, value, quotaLeft) ==
    localStorage_setCall(st, key, value, quotaLeft).store

\* localStorage.remove(key)
localStorage_remove(st, key) == [st EXCEPT ![key] = NoItem]

\* localStorage.clear()
localStorage_clear(st) == [k \in DOMAIN st |-> NoItem]

EmptyGraph == JObj([nodes |-> <<>>, edges |-> <<>>])

EmptyList == JArr(<<>>)

DefaultSettings ==
    JObj([theme |-> "light", autoSave |-> TRUE, defaultAIService |-> "openai"])

\* the value after `||` in each slot's load()
slotDefault(key) ==
    CASE key = STORAGE_KEYS.GRAPH_DATA -> EmptyGraph
      [] key = STORAGE_KEYS.CHAT_HISTORY -> EmptyList
      [] key = STORAGE_KEYS.AI_SERVICES -> EmptyList
      [] key = STORAGE_KEYS.SETTINGS -> DefaultSettings

\* a || b on the outcome of a call
orDefault(outcome, default) ==
    IF outcome.threw THEN outcome
    ELSE IF IsTruthy(outcome.value) THEN outcome
    ELSE Returned(default)

\* graphStorage.load, chatStorage.load, aiServicesStorage.load and
\* settingsStorage.load: localStorage.get(KEY) || default
slotLoad(st, key) == orDefault(localStorage_get(st, key), slotDefault(key))

\* graphStorage.save, chatStorage.save, aiServicesStorage.save and
\* settingsStorage.save: localStorage.set(KEY, value)
slotSave(st, key, value, quotaLeft) == localStorage_set(st, key, value, quotaLeft)

(***************************************************************************)
(* App.tsx: the application state, the startup load and the auto-save      *)
(* effect.  Node coordinates, colours and sizes are drawn at random by the *)
(* code and read by the drawing code alone; nodes are [id, label] here.    *)
(***************************************************************************)
NoNode == [id |-> "", label |-> <<>>]

InitialAppState ==
    [graph |-> [nodes |-> <<>>, edges |-> <<>>],
     selectedNode |-> NoNode,
     chatSessions |-> <<>>,
     aiServices |-> <<>>,
     settings |-> [theme |-> "light", autoSave |-> TRUE,
                   defaultAIService |-> "openai"]]

\* the list loadInitialData falls back to when no service is persisted
DefaultServices ==
    <<[name |-> "openai", apiKey |-> <<>>, model |-> "gpt-3.5-turbo",
       isEnabled |-> FALSE],
      [name |-> "gemini", apiKey |-> <<>>, model |-> "gemini-pro",
       isEnabled |-> FALSE]>>

\* loadInitialData: the four loads, and the updater it queues applied to prev
loadInitialData(prev, st) ==
    LET graphData == slotLoad(st, STORAGE_KEYS.GRAPH_DATA).value.v
        chatHistory == slotLoad(st, STORAGE_KEYS.CHAT_HISTORY).value.v
        aiServices == slotLoad(st, STORAGE_KEYS.AI_SERVICES).value.v
        settings == slotLoad(st, STORAGE_KEYS.SETTINGS).value.v
    IN  [prev EXCEPT !.graph = graphData,
                     !.chatSessions = chatHistory,
                     !.aiServices = IF Len(aiServices) > 0 THEN aiServices
                                    ELSE DefaultServices,
                     !.settings = settings]

\* the four saves of the auto-save effect
saveAll(st, app) ==
    LET s1 == slotSave(st, STORAGE_KEYS.GRAPH_DATA, JObj(app.graph), TRUE)
        s2 == slotSave(s1, STORAGE_KEYS.CHAT_HISTORY, JArr(app.chatSessions), TRUE)
        s3 == slotSave(s2, STORAGE_KEYS.AI_SERVICES, JArr(app.aiServices), TRUE)
    IN  slotSave(s3, STORAGE_KEYS.SETTINGS, JObj(app.settings), TRUE)

\* an auto-save effect that does not look at settings.autoSave
autoSave_always(st, app) == saveAll(st, app)

\* the auto-save effect, run after a render with a new appState: the store
\* it leaves
autoSave(st, app) ==
    IF app.settings.autoSave
    THEN LET s1 == slotSave(st, STORAGE_KEYS.GRAPH_DATA, JObj(app.graph), TRUE)
             s2 == slotSave(s1, STORAGE_KEYS.CHAT_HISTORY, JArr(app.chatSessions), TRUE)
             s3 == slotSave(s2, STORAGE_KEYS.AI_SERVICES, JArr(app.aiServices), TRUE)
         IN  slotSave(s3, STORAGE_KEYS.SETTINGS, JObj(app.settings), TRUE)
    ELSE st

\* updateSelectedNode
updateSelectedNode(app, node) == [app EXCEPT !.selectedNode = node]

\* updateSettings
updateSettings(app, newSettings) == [app EXCEPT !.settings = newSettings]

\* addChatSession
addChatSession(app, session) ==
    [app EXCEPT !.chatSessions = Append(@, session)]

Routes == {"/", "/chat-history", "/api-settings", "/settings"}

(***************************************************************************)
(* components/GraphViewer.tsx                                              *)
(***************************************************************************)
NoService == [name |-> "", apiKey |-> <<>>, model |-> "", isEnabled |-> FALSE]

\* array.find(p): the first element satisfying p, NoService for undefined
FirstEnabled(services) ==
    LET hits == {i \in DOMAIN services : services[i].isEnabled}
    IN  IF hits = {} THEN NoService ELSE services[Least(hits)]

FirstNamed(services, name) ==
    LET hits == {i \in DOMAIN services : services[i].name = name}
    IN  IF hits = {} THEN NoService ELSE services[Least(hits)]

\* getEnabledAIService
getEnabledAIService(services, defaultService) ==
    IF FirstEnabled(services) # NoService
    THEN FirstEnabled(services)
    ELSE FirstNamed(services, defaultService)

\* graphData.nodes.find(n => n.id === node.id)
FindNode(graph, id) ==
    LET hits == {i \in DOMAIN graph.nodes : graph.nodes[i].id = id}
    IN  IF hits = {} THEN NoNode ELSE graph.nodes[Least(hits)]

(***************************************************************************)
(* components/NodeChat.tsx                                                 *)
(***************************************************************************)
\* the state of a NodeChat that has just been mounted
NewCard ==
    [mounted |-> TRUE, messages |-> <<>>, inputMessage |-> <<>>,
     isLoading |-> FALSE, relatedTopics |-> <<>>, showRelatedTopics |-> FALSE]

\* no NodeChat is mounted
NoCard == [NewCard EXCEPT !.mounted = FALSE]

\* the chat input's disabled attribute
inputDisabled_never(c) == FALSE

inputDisabled(c) == c.isLoading

\* the send button's disabled attribute
sendButtonDisabled(c) == c.isLoading \/ Len(trim(c.inputMessage)) = 0

\* the check without its validateAPIKey conjunct
isAIConfigured_noKeyCheck(aiService) ==
    aiService # NoService /\ aiService.isEnabled

\* isAIConfigured
isAIConfigured(aiService) ==
    /\ aiService # NoService
    /\ aiService.isEnabled
    /\ validateAPIKey(aiService.name, aiService.apiKey)

\* a first return that does not look at the input
sendIsBlocked_serviceOnly(inputMessage, aiService) ==
    \/ aiService = NoService
    \/ ~aiService.isEnabled

\* the first return of handleSendMessage
sendIsBlocked(inputMessage, aiService) ==
    \/ Len(trim(inputMessage)) = 0
    \/ aiService = NoService
    \/ ~aiService.isEnabled

PrimingHead ==
    <<"Y", "o", "u", " ", "a", "r", "e", " ", "a", "n", " ", "A", "I",
      " ", "a", "s", "s", "i", "s", "t", "a", "n", "t", " ", "h", "e",
      "l", "p", "i", "n", "g", " ", "e", "x", "p", "l", "o", "r", "e",
      " ", "t", "h", "e", " ", "t", "o", "p", "i", "c", ":", " ", "\"">>

PrimingTail ==
    <<"\"", ".", " ", "P", "r", "o", "v", "i", "d", "e", " ", "i", "n",
      "f", "o", "r", "m", "a", "t", "i", "v", "e", " ", "r", "e", "s",
      "p", "o", "n", "s", "e", "s", " ", "a", "n", "d", " ", "s", "u",
      "g", "g", "e", "s", "t", " ", "r", "e", "l", "a", "t", "e", "d",
      " ", "t", "o", "p", "i", "c", "s", " ", "t", "h", "a", "t", " ",
      "c", "o", "u", "l", "d", " ", "b", "e", " ", "c", "o", "n", "n",
      "e", "c", "t", "e", "d", " ", "t", "o", " ", "t", "h", "i", "s",
      " ", "s", "u", "b", "j", "e", "c", "t", ".">>

FailureNotice ==
    <<"S", "o", "r", "r", "y", ",", " ", "I", " ", "e", "n", "c", "o",
      "u", "n", "t", "e", "r", "e", "d", " ", "a", "n", " ", "e", "r",
      "r", "o", "r", ".", " ", "P", "l", "e", "a", "s", "e", " ", "c",
      "h", "e", "c", "k", " ", "y", "o", "u", "r", " ", "A", "P", "I",
      " ", "k", "e", "y", " ", "a", "n", "d", " ", "t", "r", "y", " ",
      "a", "g", "a", "i", "n", ".">>

\* conversationMessages
conversationMessages(node, messages, inputMessage) ==
    <<[role |-> "user", content |-> PrimingHead \o node.label \o PrimingTail]>>
        \o [i \in DOMAIN messages |->
                [role |-> messages[i].role, content |-> messages[i].content]]
        \o <<[role |-> "user", content |-> trim(inputMessage)]>>

\* new Date(): the clock stands still while the model runs
Clock == "2024-01-01T00:00:00.000Z"

now == JDate(Clock)

\* generateId(): an id no object the application holds carries; `used` is
\* the set of ids that are held
generateId(used) ==
    LET n == Least({k \in 1..(Cardinality(used) + 1) :
                       ("id" \o ToString(k)) \notin used})
    IN  "id" \o ToString(n)

\* the messages' own ids are read as list keys only and are left out
userMessageOf(node, inputMessage) ==
    [nodeId |-> node.id, role |-> "user", content |-> trim(inputMessage),
     timestamp |-> now]

assistantMessageOf(node, response) ==
    [nodeId |-> node.id, role |-> "assistant", content |-> response.content,
     timestamp |-> now, relatedTopics |-> response.relatedTopics]

errorMessageOf(node) ==
    [nodeId |-> node.id, role |-> "assistant", content |-> FailureNotice,
     timestamp |-> now]

\* handleSendMessage's try block after the await, on the card's state
tryRest(c, node, response) ==
    [c EXCEPT !.messages = Append(@, assistantMessageOf(node, response)),
              !.relatedTopics = response.relatedTopics,
              !.showRelatedTopics = TRUE]

\* a catch block that swallows the error
catchBlock_silent(c, node) == c

\* handleSendMessage's catch block, on the card's state
catchBlock(c, node) ==
    [c EXCEPT !.messages = Append(@, errorMessageOf(node))]

\* handleSendMessage's finally block, on the card's state
finallyBlock(c) == [c EXCEPT !.isLoading = FALSE]

\* chatSession
chatSessionOf(node, messages, userMessage, assistantMessage, id) ==
    [id |-> id, nodeId |-> node.id,
     messages |-> messages \o <<userMessage, assistantMessage>>,
     createdAt |-> now, updatedAt |-> now]

(***************************************************************************)
(* State                                                                   *)
(***************************************************************************)
VARIABLES
    calls,      \* the dispatcher calls their callers still hold, in order of
                \* their start
    store,      \* window.localStorage: key -> item
    storageOp,  \* the wrapper call that ended last, with its outcome
    build,      \* "development" or "production"
    phase,      \* "initial" until App's mount effects have run, then "ready"
    route,      \* the path the router shows
    appState,   \* App's state
    viewer,     \* GraphViewer's state
    card,       \* the state of the NodeChat instance, when one is mounted
    sends,      \* per call made by a NodeChat: what handleSendMessage holds
                \* while it awaits the call
    queued,     \* the state updates App's effects have queued for the next
                \* render
    settingsForm, \* the state of the Settings view, when it is mounted
    apiForm,    \* the state of the APISettings view, when it is mounted
    probe       \* a helper function applied on its own: its arguments
                \* and, once it has returned, what it returned

vars == <<calls, store, storageOp, build, phase, route, appState, viewer,
          card, sends, queued, settingsForm, apiForm, probe>>

storageVars == <<store, storageOp>>

uiVars == <<build, phase, route, appState, viewer, card, sends, queued,
            settingsForm, apiForm>>

formVars == <<queued, settingsForm, apiForm>>

NewViewer == [showChat |-> FALSE, newNodeInput |-> <<>>]

\* the state of a Settings view just mounted with the settings prop
NewForm(settings) == [mounted |-> TRUE, tempSettings |-> settings]

\* no Settings view is mounted
NoForm == [mounted |-> FALSE, tempSettings |-> InitialAppState.settings]

\* no save message is shown
NoMessage == [type |-> "none", text |-> ""]

\* the state of an APISettings view just mounted with the aiServices prop:
\* tempServices is initialised from the prop once; timers counts the
\* pending timeouts that clear the save message.  isSaving is false
\* whenever no handler runs and showKeys is display only.
NewApiForm(aiServices) ==
    [mounted |-> TRUE, tempServices |-> aiServices, saveMessage |-> NoMessage,
     timers |-> 0]

\* no APISettings view is mounted
NoApiForm ==
    [mounted |-> FALSE, tempServices |-> <<>>, saveMessage |-> NoMessage,
     timers |-> 0]

\* the application has not been started
UIIdle ==
    /\ build = "production"
    /\ phase = "initial"
    /\ route = "/"
    /\ appState = InitialAppState
    /\ viewer = NewViewer
    /\ card = NoCard
    /\ sends = <<>>
    /\ queued = <<>>
    /\ settingsForm = NoForm
    /\ apiForm = NoApiForm

\* the application of helper function fn that has yet to be made
Pending(fn, service, input) ==
    [fn |-> fn, service |-> service, input |-> input, done |-> FALSE,
     candidates |-> <<>>, result |-> FALSE]

\* no helper function is applied on its own
NoProbe == Pending("none", "", <<>>)

NoOp == [op |-> "none", key |-> "", threw |-> FALSE, value |-> JUndefined]

FreshStore == [k \in StorageKeys |-> NoItem]

(***************************************************************************)
(* The dispatcher called directly: the inputs a caller can hand it and the *)
(* answers a provider can give.                                            *)
(***************************************************************************)
MaxMessages == 3

\* "This topic is related to: Mathematics, Physics."
ReplyKeywordLine ==
    <<"T", "h", "i", "s", " ", "t", "o", "p", "i", "c", " ", "i", "s",
      " ", "r", "e", "l", "a", "t", "e", "d", " ", "t", "o", ":", " ",
      "M", "a", "t", "h", "e", "m", "a", "t", "i", "c", "s", ",", " ",
      "P", "h", "y", "s", "i", "c", "s", ".">>

\* "Paris is the capital of France and home to the Louvre."
ReplyNoKeyword ==
    <<"P", "a", "r", "i", "s", " ", "i", "s", " ", "t", "h", "e", " ",
      "c", "a", "p", "i", "t", "a", "l", " ", "o", "f", " ", "F", "r",
      "a", "n", "c", "e", " ", "a", "n", "d", " ", "h", "o", "m", "e",
      " ", "t", "o", " ", "t", "h", "e", " ", "L", "o", "u", "v", "r",
      "e", ".">>

\* "Topics: Algebra, Geometry, Topology, Logic, Analysis, Probability."
ReplySixTopics ==
    <<"T", "o", "p", "i", "c", "s", ":", " ", "A", "l", "g", "e", "b",
      "r", "a", ",", " ", "G", "e", "o", "m", "e", "t", "r", "y", ",",
      " ", "T", "o", "p", "o", "l", "o", "g", "y", ",", " ", "L", "o",
      "g", "i", "c", ",", " ", "A", "n", "a", "l", "y", "s", "i", "s",
      ",", " ", "P", "r", "o", "b", "a", "b", "i", "l", "i", "t", "y",
      ".">>

\* "See also: It, Of."
ReplyShortTopics ==
    <<"S", "e", "e", " ", "a", "l", "s", "o", ":", " ", "I", "t", ",",
      " ", "O", "f", ".">>

ValidOpenAIKey == SK_PREFIX \o Repeat("x", MIN_KEY_LENGTH - 2)

ShortKey == <<"k", "e", "y">>

\* provider names as persisted state can hold them: the two known ones and
\* one no adapter exists for
ProviderNames == {"openai", "gemini", "claude"}

DirectServices ==
    [name : ProviderNames,
     apiKey : {ValidOpenAIKey, ShortKey},
     model : {undefined, "gpt-4"},
     isEnabled : {TRUE}]

\* the roles are strings at run time: a caller can hand over a role that
\* its declared type leaves out
DirectMessageValues ==
    {[role |-> "user", content |-> <<"h", "i">>],
     [role |-> "assistant", content |-> <<"y", "o">>],
     [role |-> "user", content |-> <<>>],
     [role |-> "system", content |-> <<"b", "e">>]}

DirectMessageLists ==
    UNION {[1..n -> DirectMessageValues] : n \in 0..MaxMessages}

\* an OpenAI reply whose choices[0].message.content is x
OpenAIReply(x) ==
    JObj([choices |-> JArr(<<JObj([message |-> JObj([content |-> x])])>>)])

\* a Gemini reply whose candidates[0].content.parts[0].text is x
GeminiReply(x) ==
    JObj([candidates |->
            JArr(<<JObj([content |-> JObj([parts |-> JArr(<<JObj([text |-> x])>>)])])>>)])

EmptyObject == JObj(<<>>)

\* the bodies a provider may send with a response
ResponseBodies ==
    << GarbageText,
       EmptyText,
       JsonText(JNull),
       JsonText(EmptyObject),
       JsonText(JObj([choices |-> JNull])),
       JsonText(JObj([choices |-> JArr(<<>>)])),
       JsonText(JObj([choices |-> JArr(<<JNull>>)])),
       JsonText(JObj([choices |-> JArr(<<EmptyObject>>)])),
       JsonText(JObj([choices |-> JArr(<<JObj([message |-> JNull])>>)])),
       JsonText(JObj([choices |-> JArr(<<JObj([message |-> EmptyObject])>>)])),
       JsonText(OpenAIReply(JNull)),
       JsonText(OpenAIReply(JStr(<<>>))),
       JsonText(OpenAIReply(JNum(0))),
       JsonText(OpenAIReply(JNum(7))),
       JsonText(OpenAIReply(JStr(ReplyKeywordLine))),
       JsonText(OpenAIReply(JStr(ReplyNoKeyword))),
       JsonText(OpenAIReply(JStr(ReplySixTopics))),
       JsonText(OpenAIReply(JStr(ReplyShortTopics))),
       JsonText(JObj([candidates |-> JNull])),
       JsonText(JObj([candidates |-> JArr(<<>>)])),
       JsonText(JObj([candidates |-> JArr(<<JNull>>)])),
       JsonText(JObj([candidates |-> JArr(<<EmptyObject>>)])),
       JsonText(JObj([candidates |-> JArr(<<JObj([content |-> JNull])>>)])),
       JsonText(JObj([candidates |-> JArr(<<JObj([content |-> EmptyObject])>>)])),
       JsonText(JObj([candidates |->
           JArr(<<JObj([content |-> JObj([parts |-> JArr(<<>>)])])>>)])),
       JsonText(JObj([candidates |->
           JArr(<<JObj([content |-> JObj([parts |-> JArr(<<EmptyObject>>)])])>>)])),
       JsonText(GeminiReply(JNull)),
       JsonText(GeminiReply(JStr(<<>>))),
       JsonText(GeminiReply(JStr(ReplyKeywordLine))),
       JsonText(GeminiReply(JStr(ReplyNoKeyword))),
       JsonText(GeminiReply(JStr(ReplySixTopics))) >>

\* the final statuses a provider may answer with
ResponseStatuses == {200, 201, 401, 500}

InitDispatch ==
    /\ calls = <<>>
    /\ store = FreshStore
    /\ storageOp = NoOp
    /\ UIIdle
    /\ probe = NoProbe

\* a caller invokes aiServiceDispatcher.chat(service, messages)
DirectDispatch ==
    /\ calls = <<>>
    /\ \E service \in DirectServices, messages \in DirectMessageLists :
           calls' = <<aiServiceDispatcher_chat(service, messages)>>
    /\ UNCHANGED <<storageVars, uiVars, probe>>

\* fetch resolves with a response
FetchResponds(c) ==
    /\ calls[c].pc = "fetch"
    /\ \E status \in ResponseStatuses, b \in DOMAIN ResponseBodies :
           calls' = [calls EXCEPT
                        ![c] = adapterOnResponse(@, status, ResponseBodies[b])]
    /\ UNCHANGED <<storageVars, uiVars, probe>>

\* fetch rejects: the request could not be completed
FetchFails(c) ==
    /\ calls[c].pc = "fetch"
    /\ calls' = [calls EXCEPT ![c] = adapterOnNetworkFailure(@)]
    /\ UNCHANGED <<storageVars, uiVars, probe>>

\* response.json() settles
JsonSettles(c) ==
    /\ calls[c].pc = "json"
    /\ calls' = [calls EXCEPT ![c] = adapterOnJson(@)]
    /\ UNCHANGED <<storageVars, uiVars, probe>>

NextDispatch ==
    \/ DirectDispatch
    \/ \E c \in DOMAIN calls : FetchResponds(c)
    \/ \E c \in DOMAIN calls : FetchFails(c)
    \/ \E c \in DOMAIN calls : JsonSettles(c)

SpecDispatch == InitDispatch /\ [][NextDispatch]_vars

(***************************************************************************)
(* Properties of the dispatcher and the adapters (under SpecDispatch)      *)
(***************************************************************************)
KnownProviders == {"openai", "gemini"}

\* C1: a call for a config named 'openai' or 'gemini' invokes the adapter of
\* that name and no other, and hands it the caller's message list unchanged
\* with the config's own apiKey and model.
C1_DispatchRoutesToNamedAdapter ==
    \A c \in DOMAIN calls :
        calls[c].service.name \in KnownProviders =>
            /\ calls[c].adapter = calls[c].service.name
            /\ calls[c].args.messages = calls[c].messages
            /\ calls[c].args.apiKey = calls[c].service.apiKey
            /\ calls[c].args.model = calls[c].service.model

C1_Witness ==
    \E c \in DOMAIN calls :
        /\ calls[c].service.name = "gemini"
        /\ calls[c].adapter = "gemini"
        /\ Len(calls[c].messages) >= 2
        /\ calls[c].pc = "fulfilled"

\* C2: a call for a config whose name is neither 'openai' nor 'gemini' fails
\* with the unsupported-service error, issues no request and yields no
\* AIResponse.
C2_UnknownProviderIsRejected ==
    \A c \in DOMAIN calls :
        calls[c].service.name \notin KnownProviders =>
            /\ calls[c].pc = "rejected"
            /\ calls[c].error.name = "Error"
            /\ calls[c].error.message =
                   "Unsupported AI service: " \o calls[c].service.name
            /\ calls[c].adapter = "none"
            /\ calls[c].requests = <<>>
            /\ calls[c].value = NoResponse

C2_Witness ==
    \E c \in DOMAIN calls :
        calls[c].service.name = "claude" /\ calls[c].pc = "rejected"

\* C3: once the provider has answered with a non-success status, the call
\* has failed with an error whose message carries that status, and no
\* AIResponse is returned.
C3_NonSuccessStatusIsRejected ==
    \A c \in DOMAIN calls :
        (calls[c].status # 0 /\ ~(calls[c].status \in 200..299)) =>
            /\ calls[c].pc = "rejected"
            /\ calls[c].error.name = "Error"
            /\ calls[c].error.message =
                   (IF calls[c].service.name = "openai" THEN "OpenAI" ELSE "Gemini")
                       \o " API error: " \o ToString(calls[c].status)
            /\ calls[c].value = NoResponse

C3_Witness ==
    \E c \in DOMAIN calls :
        /\ calls[c].adapter = "gemini"
        /\ calls[c].status = 401
        /\ calls[c].pc = "rejected"

\* the value found by walking the documented path to the reply text, every
\* level allowed to be missing
TextAt(provider, data) ==
    LET path == IF provider = "openai"
                THEN <<OptProp("choices"), [Index(0) EXCEPT !.opt = TRUE],
                       OptProp("message"), OptProp("content")>>
                ELSE <<OptProp("candidates"), [Index(0) EXCEPT !.opt = TRUE],
                       OptProp("content"), OptProp("parts"),
                       [Index(0) EXCEPT !.opt = TRUE], OptProp("text")>>
    IN  EvalChain(data, path, 1)

Settled(call) == call.pc \in {"fulfilled", "rejected"}

\* a call whose provider answered with a success status and a JSON body
AnsweredWithJson(call) ==
    /\ call.status \in 200..299
    /\ call.body.kind = "json"
    /\ Settled(call)

\* C4: a success-status reply in which the text is absent at any level of
\* the path still makes the call succeed, with content the empty string.
C4_AbsentTextGivesEmptyContent ==
    \A c \in DOMAIN calls :
        (/\ AnsweredWithJson(calls[c])
         /\ IsNullish(TextAt(calls[c].adapter, calls[c].body.value))) =>
            /\ calls[c].pc = "fulfilled"
            /\ calls[c].value.content = <<>>

\* C5: every AIResponse of a successful call has confidence 0.8, the reply's
\* text as content and the topic extractor's output on that content (at
\* most five entries) as relatedTopics.
C5_SuccessfulResponseShape ==
    \A c \in DOMAIN calls :
        calls[c].pc = "fulfilled" =>
            LET x == TextAt(calls[c].adapter, calls[c].body.value)
            IN  /\ calls[c].value.confidence = "0.8"
                /\ calls[c].value.content = (IF x.t = "string" THEN x.v ELSE <<>>)
                /\ calls[c].value.relatedTopics =
                       extractRelatedTopics(calls[c].value.content)
                /\ Len(calls[c].value.relatedTopics) \in 0..5

C5_Witness ==
    \E c \in DOMAIN calls :
        /\ calls[c].pc = "fulfilled"
        /\ Len(calls[c].messages) = 3
        /\ Len(calls[c].value.relatedTopics) = 2
        /\ calls[c].value.content # <<>>

\* C6: a call for a known provider has issued exactly one HTTP request, from
\* its start on and whichever way it ends.
C6_ExactlyOneRequest ==
    \A c \in DOMAIN calls :
        calls[c].service.name \in KnownProviders => Len(calls[c].requests) = 1

C6_Witness ==
    \E c \in DOMAIN calls :
        /\ calls[c].service.name \in KnownProviders
        /\ calls[c].pc = "rejected"
        /\ calls[c].error = NetworkError

\* the contents of the request a Gemini call has issued
GeminiContents(c) == calls[c].requests[1].body.contents

SentToGemini(c) == calls[c].adapter = "gemini" /\ Len(calls[c].requests) = 1

\* contents has one entry per message, in the messages' order, each holding
\* the message's content as the text of its only part
ContentsFollowMessages(c) ==
    /\ Len(GeminiContents(c)) = Len(calls[c].messages)
    /\ \A i \in DOMAIN calls[c].messages :
           /\ Len(GeminiContents(c)[i].parts) = 1
           /\ GeminiContents(c)[i].parts[1].text = calls[c].messages[i].content

SampleNode == [id |-> "n1", label |-> <<"M", "a", "t", "h">>]

SampleService ==
    [name |-> "openai", apiKey |-> ValidOpenAIKey, model |-> "gpt-4",
     isEnabled |-> TRUE]

\* well-formed values of each slot
slotValues(key) ==
    CASE key = STORAGE_KEYS.GRAPH_DATA ->
             {EmptyGraph, JObj([nodes |-> <<SampleNode>>, edges |-> <<>>])}
      [] key = STORAGE_KEYS.CHAT_HISTORY ->
             {EmptyList, JArr(<<[id |-> "s1", nodeId |-> "n1", messages |-> <<>>]>>)}
      [] key = STORAGE_KEYS.AI_SERVICES ->
             {EmptyList, JArr(<<SampleService>>)}
      [] key = STORAGE_KEYS.SETTINGS ->
             {DefaultSettings,
              JObj([theme |-> "dark", autoSave |-> FALSE,
                    defaultAIService |-> "gemini"])}

\* what a slot of the origin's store can hold when the application starts:
\* nothing, text that is not JSON, or the JSON text of any value
slotItems(key) ==
    {NoItem, EmptyText, GarbageText,
     JsonText(JNull), JsonText(JBool(FALSE)), JsonText(JNum(0)),
     JsonText(JStr(<<>>)), JsonText(JNum(7))}
        \cup {JsonText(x) : x \in slotValues(key)}

InitStorage ==
    /\ calls = <<>>
    /\ store \in {st \in [StorageKeys -> UNION {slotItems(k) : k \in StorageKeys}] :
                      \A k \in StorageKeys : st[k] \in slotItems(k)}
    /\ storageOp = NoOp
    /\ UIIdle
    /\ probe = NoProbe

\* <slot>.load()
Load(key) ==
    /\ storageOp' = [op |-> "load", key |-> key,
                      threw |-> slotLoad(store, key).threw,
                      value |-> slotLoad(store, key).value]
    /\ UNCHANGED <<calls, store, uiVars, probe>>

\* <slot>.save(value); the browser refuses the write when the quota is used up
Save(key) ==
    \E value \in slotValues(key) \cup {JCyclic}, quotaLeft \in BOOLEAN :
        /\ store' = slotSave(store, key, value, quotaLeft)
        /\ storageOp' = [op |-> "save", key |-> key,
                          threw |-> localStorage_setCall(store, key, value,
                                                         quotaLeft).threw,
                          value |-> value,
                          failed |-> writeFails(value, quotaLeft)]
        /\ UNCHANGED <<calls, uiVars, probe>>

\* localStorage.remove(key)
Remove(key) ==
    /\ store' = localStorage_remove(store, key)
    /\ storageOp' = [op |-> "remove", key |-> key, threw |-> FALSE,
                      value |-> JUndefined]
    /\ UNCHANGED <<calls, uiVars, probe>>

\* localStorage.clear()
Clear ==
    /\ store' = localStorage_clear(store)
    /\ storageOp' = [op |-> "clear", key |-> "", threw |-> FALSE,
                      value |-> JUndefined]
    /\ UNCHANGED <<calls, uiVars, probe>>

NextStorage ==
    \/ \E key \in StorageKeys : Load(key)
    \/ \E key \in StorageKeys : Save(key)
    \/ \E key \in StorageKeys : Remove(key)
    \/ Clear

SpecStorage == InitStorage /\ [][NextStorage]_vars

(***************************************************************************)
(* Properties of the persistence wrapper (under SpecStorage)               *)
(***************************************************************************)
JustLoaded == storageOp.op = "load"

\* the slot just loaded holds nothing, or text that JSON.parse rejects
AbsentOrUnparsable(item) == item.kind \in {"none", "empty", "garbage"}

\* the documented defaults
DocumentedDefault(key) ==
    CASE key = "knowledge_graph_data" -> JObj([nodes |-> <<>>, edges |-> <<>>])
      [] key = "chat_history" -> JArr(<<>>)
      [] key = "ai_services" -> JArr(<<>>)
      [] key = "app_settings" ->
             JObj([theme |-> "light", autoSave |-> TRUE,
                   defaultAIService |-> "openai"])

\* C10 as stated: load() never throws, returns the documented default when
\* the slot is absent or unparsable, and the stored value otherwise.
C10_LoadDefaultOrStored ==
    JustLoaded =>
        /\ ~storageOp.threw
        /\ storageOp.value =
               IF AbsentOrUnparsable(store[storageOp.key])
               THEN DocumentedDefault(storageOp.key)
               ELSE store[storageOp.key].value

\* the JSON values that `||` replaces by the default
FalsyJson(x) ==
    \/ x.t = "null"
    \/ x.t = "boolean" /\ x.v = FALSE
    \/ x.t = "number" /\ x.v = 0
    \/ x.t = "string" /\ x.v = <<>>

\* C10 amended: load() never throws; it returns the documented default when
\* the slot is absent, unparsable or holds the JSON text of a falsy value
\* (null, false, 0, ""), and the parsed stored value otherwise.
C10_LoadDefaultOrTruthyStored ==
    JustLoaded =>
        /\ ~storageOp.threw
        /\ storageOp.value =
               IF \/ AbsentOrUnparsable(store[storageOp.key])
                  \/ FalsyJson(store[storageOp.key].value)
               THEN DocumentedDefault(storageOp.key)
               ELSE store[storageOp.key].value

C10_Witness ==
    /\ JustLoaded
    /\ storageOp.key = "app_settings"
    /\ store["app_settings"] = JsonText(JNull)
    /\ storageOp.value = DocumentedDefault("app_settings")
    /\ store["knowledge_graph_data"].kind = "json"
    /\ store["chat_history"] = GarbageText

\* C11: a save() whose underlying write fails (quota used up, or a value
\* JSON.stringify throws on) returns without raising and leaves every slot
\* of the store and the in-memory app state as they were.
C11_FailedSaveChangesNothing ==
    [][(storageOp'.op = "save" /\ storageOp'.failed) =>
           /\ ~storageOp'.threw
           /\ store' = store
           /\ appState' = appState]_vars

\* a save has failed on a slot that holds an earlier value, other than the
\* one it was to write
C11_Witness ==
    /\ storageOp.op = "save"
    /\ storageOp.failed
    /\ ~storageOp.threw
    /\ store[storageOp.key].kind = "json"
    /\ store[storageOp.key].value # storageOp.value
    /\ storageOp.value # JCyclic

(***************************************************************************)
(* The application: startup, navigation, node selection and the node chat. *)
(* A call a NodeChat makes stays in `calls`, with what handleSendMessage   *)
(* holds for it in `sends` at the same index, until handleSendMessage has  *)
(* resumed from its await and returned.                                    *)
(***************************************************************************)
MaxSends == 2

TwoNodeGraph ==
    [nodes |-> <<[id |-> "n1", label |-> <<"M", "a", "t", "h">>],
                 [id |-> "n2", label |-> <<"A", "r", "t">>]>>,
     edges |-> <<>>]

ValidGeminiKey == Repeat("g", MIN_KEY_LENGTH + 1)

\* service lists as the ai_services slot can hold them: lists the settings
\* view saved and lists that were written or damaged by something else
ServiceLists ==
    <<<<[name |-> "openai", apiKey |-> ValidOpenAIKey, model |-> "gpt-4",
        isEnabled |-> TRUE],
       [name |-> "gemini", apiKey |-> <<>>, model |-> "gemini-pro",
        isEnabled |-> FALSE]>>,
     <<[name |-> "openai", apiKey |-> ShortKey, model |-> "gpt-4",
        isEnabled |-> FALSE],
       [name |-> "gemini", apiKey |-> ValidGeminiKey, model |-> "gemini-pro",
        isEnabled |-> TRUE]>>,
     <<[name |-> "openai", apiKey |-> ShortKey, model |-> "gpt-4",
        isEnabled |-> TRUE],
       [name |-> "gemini", apiKey |-> ValidGeminiKey, model |-> "gemini-pro",
        isEnabled |-> TRUE]>>,
     <<[name |-> "claude", apiKey |-> ValidGeminiKey, model |-> "gpt-4",
        isEnabled |-> TRUE],
       [name |-> "gemini", apiKey |-> <<>>, model |-> "gemini-pro",
        isEnabled |-> FALSE]>>>>

DarkNoAutoSave ==
    [theme |-> "dark", autoSave |-> FALSE, defaultAIService |-> "gemini"]

StoreHolding(graphItem, servicesItem, settingsItem) ==
    [k \in StorageKeys |->
        CASE k = STORAGE_KEYS.GRAPH_DATA -> graphItem
          [] k = STORAGE_KEYS.AI_SERVICES -> servicesItem
          [] k = STORAGE_KEYS.SETTINGS -> settingsItem
          [] OTHER -> NoItem]

\* what the browser holds for the application when it starts: nothing, or
\* what an earlier run left, some of it damaged
PersistedStores ==
    {FreshStore,
     StoreHolding(JsonText(JObj(TwoNodeGraph)), GarbageText, NoItem),
     StoreHolding(NoItem, JsonText(JArr(ServiceLists[1])),
                  JsonText(JObj(DarkNoAutoSave)))}
    \cup {StoreHolding(JsonText(JObj(TwoNodeGraph)),
                       JsonText(JArr(ServiceLists[i])),
                       IF i % 2 = 0 THEN JsonText(JObj(DarkNoAutoSave))
                       ELSE NoItem) : i \in DOMAIN ServiceLists}

InputTexts == {<<>>, <<" ">>, <<" ", "h", "i">>}

UIResponseBodies ==
    << GarbageText,
       JsonText(EmptyObject),
       JsonText(OpenAIReply(JStr(ReplyKeywordLine))),
       JsonText(GeminiReply(JStr(ReplyKeywordLine))) >>

UIResponseStatuses == {200, 500}

Init ==
    /\ calls = <<>>
    /\ storageOp = NoOp
    /\ build \in {"development", "production"}
    /\ phase = "initial"
    /\ route \in Routes
    /\ appState = InitialAppState
    /\ viewer = NewViewer
    /\ card = NoCard
    /\ sends = <<>>
    /\ queued = <<>>
    /\ settingsForm = IF route = "/settings" THEN NewForm(appState.settings)
                      ELSE NoForm
    /\ apiForm = IF route = "/api-settings"
                 THEN NewApiForm(appState.aiServices)
                 ELSE NoApiForm
    /\ store \in PersistedStores
    /\ probe = NoProbe

\* no call has settled without handleSendMessage having resumed: a resumed
\* handleSendMessage runs before the next event is handled
NoContinuationDue ==
    \A c \in DOMAIN calls : calls[c].pc \in {"fetch", "json"}

\* the NodeChat is unmounted: the setters its handlers hold do nothing
Unmounted(held) == [c \in DOMAIN held |-> [held[c] EXCEPT !.live = FALSE]]

RemoveAt(seq, c) ==
    [i \in 1..(Len(seq) - 1) |-> IF i < c THEN seq[i] ELSE seq[i + 1]]

\* the updates queued by loadInitialData applied in order: each sets the
\* four loaded fields of the state before it
RECURSIVE applyQueued(_, _)
applyQueued(prev, q) ==
    IF q = <<>> THEN prev
    ELSE applyQueued([prev EXCEPT !.graph = Head(q).graph,
                                  !.chatSessions = Head(q).chatSessions,
                                  !.aiServices = Head(q).aiServices,
                                  !.settings = Head(q).settings],
                     Tail(q))

\* App mounts: the load effect and the auto-save effect run on the first
\* render's state, twice over under StrictMode in a development build.
\* Each run of the load effect reads the store as the runs before it left
\* it and queues an update.
AppMount ==
    /\ phase = "initial"
    /\ LET savedFirst == autoSave(store, appState)
       IN  IF build = "development"
           THEN /\ queued' = <<loadInitialData(appState, store),
                               loadInitialData(appState, savedFirst)>>
                /\ store' = autoSave(savedFirst, appState)
           ELSE /\ queued' = <<loadInitialData(appState, store)>>
                /\ store' = savedFirst
    /\ phase' = "mounted"
    /\ UNCHANGED <<probe, calls, storageOp, build, route, appState, viewer, card,
                   sends, settingsForm, apiForm>>

\* App renders again with the queued updates applied, and the auto-save
\* effect runs on the new state
AppLoaded ==
    /\ phase = "mounted"
    /\ appState' = applyQueued(appState, queued)
    /\ store' = autoSave(store, appState')
    /\ queued' = <<>>
    /\ phase' = "ready"
    /\ UNCHANGED <<probe, calls, storageOp, build, route, viewer, card, sends,
                   settingsForm, apiForm>>

\* a navigation link is followed: the view of the old route is unmounted
Navigate(path) ==
    /\ phase = "ready"
    /\ NoContinuationDue
    /\ path # route
    /\ route' = path
    /\ viewer' = NewViewer
    /\ card' = NoCard
    /\ sends' = Unmounted(sends)
    /\ settingsForm' = IF path = "/settings" THEN NewForm(appState.settings)
                       ELSE NoForm
    /\ apiForm' = IF path = "/api-settings"
                  THEN NewApiForm(appState.aiServices)
                  ELSE NoApiForm
    /\ UNCHANGED <<probe, calls, store, storageOp, build, phase, appState, queued>>

\* the aiService prop GraphViewer hands to NodeChat
aiServiceProp ==
    getEnabledAIService(appState.aiServices, appState.settings.defaultAIService)

\* handleNodeClick
NodeClick(i) ==
    /\ phase = "ready"
    /\ NoContinuationDue
    /\ route = "/"
    /\ i \in DOMAIN appState.graph.nodes
    /\ LET graphNode == FindNode(appState.graph, appState.graph.nodes[i].id)
       IN  /\ graphNode # NoNode
           /\ appState' = updateSelectedNode(appState, graphNode)
    /\ viewer' = [viewer EXCEPT !.showChat = TRUE]
    /\ card' = IF card.mounted THEN card ELSE NewCard
    /\ store' = autoSave(store, appState')
    /\ UNCHANGED <<calls, storageOp, build, phase, route, sends>>
    /\ UNCHANGED <<formVars, probe>>

\* handleBackgroundClick
BackgroundClick ==
    /\ phase = "ready"
    /\ NoContinuationDue
    /\ route = "/"
    /\ appState' = updateSelectedNode(appState, NoNode)
    /\ viewer' = [viewer EXCEPT !.showChat = FALSE]
    /\ card' = NoCard
    /\ sends' = Unmounted(sends)
    /\ store' = autoSave(store, appState')
    /\ UNCHANGED <<calls, storageOp, build, phase, route>>
    /\ UNCHANGED <<formVars, probe>>

\* handleCloseChat
CloseChat ==
    /\ card.mounted
    /\ NoContinuationDue
    /\ viewer' = [viewer EXCEPT !.showChat = FALSE]
    /\ appState' = updateSelectedNode(appState, NoNode)
    /\ card' = NoCard
    /\ sends' = Unmounted(sends)
    /\ store' = autoSave(store, appState')
    /\ UNCHANGED <<calls, storageOp, build, phase, route>>
    /\ UNCHANGED <<formVars, probe>>

\* the chat input's onChange; the input is rendered when isAIConfigured
TypeMessage(text) ==
    /\ card.mounted
    /\ NoContinuationDue
    /\ isAIConfigured(aiServiceProp)
    /\ ~inputDisabled(card)
    /\ text # card.inputMessage
    /\ card' = [card EXCEPT !.inputMessage = text]
    /\ UNCHANGED <<calls, store, storageOp, build, phase, route, appState,
                   viewer, sends>>
    /\ UNCHANGED <<formVars, probe>>

\* the ids carried by the nodes, edges and sessions the application holds
UsedIds ==
    {appState.graph.nodes[i].id : i \in DOMAIN appState.graph.nodes}
    \cup {appState.graph.edges[i].id : i \in DOMAIN appState.graph.edges}
    \cup {appState.selectedNode.id}
    \cup {appState.chatSessions[i].id : i \in DOMAIN appState.chatSessions}

\* handleSendMessage up to its await
handleSendMessage ==
    /\ IF sendIsBlocked(card.inputMessage, aiServiceProp)
       THEN UNCHANGED <<calls, card, sends>>
       ELSE LET node == appState.selectedNode
                userMessage == userMessageOf(node, card.inputMessage)
            IN  /\ Len(appState.chatSessions) + Len(calls) < MaxSends
                /\ Len(card.messages) < 2 * MaxSends
                /\ calls' = Append(calls,
                                aiServiceDispatcher_chat(aiServiceProp,
                                    conversationMessages(node, card.messages,
                                                         card.inputMessage)))
                /\ sends' = Append(sends,
                                [live |-> TRUE, node |-> node,
                                 messages |-> card.messages,
                                 userMessage |-> userMessage])
                /\ card' = [card EXCEPT !.messages = Append(@, userMessage),
                                        !.inputMessage = <<>>,
                                        !.isLoading = TRUE]
    /\ UNCHANGED <<store, storageOp, build, phase, route, appState, viewer>>
    /\ UNCHANGED <<formVars, probe>>

\* handleKeyPress with Enter, in the chat input
PressEnter ==
    /\ card.mounted
    /\ NoContinuationDue
    /\ isAIConfigured(aiServiceProp)
    /\ ~inputDisabled(card)
    /\ handleSendMessage

\* the send button's onClick
ClickSend ==
    /\ card.mounted
    /\ NoContinuationDue
    /\ isAIConfigured(aiServiceProp)
    /\ ~sendButtonDisabled(card)
    /\ handleSendMessage

\* fetch resolves for a call a NodeChat made
ChatFetchResponds(c) ==
    /\ NoContinuationDue
    /\ calls[c].pc = "fetch"
    /\ \E status \in UIResponseStatuses, b \in DOMAIN UIResponseBodies :
           calls' = [calls EXCEPT
                        ![c] = adapterOnResponse(@, status, UIResponseBodies[b])]
    /\ UNCHANGED <<storageVars, uiVars, probe>>

\* fetch rejects for a call a NodeChat made
ChatFetchFails(c) ==
    /\ NoContinuationDue
    /\ calls[c].pc = "fetch"
    /\ calls' = [calls EXCEPT ![c] = adapterOnNetworkFailure(@)]
    /\ UNCHANGED <<storageVars, uiVars, probe>>

\* response.json() settles for a call a NodeChat made
ChatJsonSettles(c) ==
    /\ NoContinuationDue
    /\ calls[c].pc = "json"
    /\ calls' = [calls EXCEPT ![c] = adapterOnJson(@)]
    /\ UNCHANGED <<storageVars, uiVars, probe>>

\* handleSendMessage resumes from its await with the settled call and
\* returns: the rest of the try block or the catch block, then finally
ResumeSend(c) ==
    /\ calls[c].pc \in {"fulfilled", "rejected"}
    /\ LET held == sends[c]
           after == finallyBlock(
                        IF calls[c].pc = "fulfilled"
                        THEN tryRest(card, held.node, calls[c].value)
                        ELSE catchBlock(card, held.node))
       IN  /\ card' = IF held.live THEN after ELSE card
           /\ appState' =
                  IF calls[c].pc = "fulfilled"
                  THEN addChatSession(appState,
                           chatSessionOf(held.node, held.messages,
                               held.userMessage,
                               assistantMessageOf(held.node, calls[c].value),
                               generateId(UsedIds)))
                  ELSE appState
    /\ store' = IF appState' # appState THEN autoSave(store, appState')
                ELSE store
    /\ calls' = RemoveAt(calls, c)
    /\ sends' = RemoveAt(sends, c)
    /\ UNCHANGED <<storageOp, build, phase, route, viewer>>
    /\ UNCHANGED <<formVars, probe>>

Next ==
    \/ AppMount
    \/ AppLoaded
    \/ \E path \in Routes : Navigate(path)
    \/ \E i \in 1..Len(appState.graph.nodes) : NodeClick(i)
    \/ BackgroundClick
    \/ CloseChat
    \/ \E text \in InputTexts : TypeMessage(text)
    \/ PressEnter
    \/ ClickSend
    \/ \E c \in DOMAIN calls : ChatFetchResponds(c)
    \/ \E c \in DOMAIN calls : ChatFetchFails(c)
    \/ \E c \in DOMAIN calls : ChatJsonSettles(c)
    \/ \E c \in DOMAIN calls : ResumeSend(c)

Spec == Init /\ [][Next]_vars

(***************************************************************************)
(* components/Settings.tsx: the form edits a copy of the settings, which   *)
(* Save hands to App.  The saved-message banner is display only.           *)
(***************************************************************************)
\* the (key, value) pairs the form's controls hand to updateTempSetting
SettingEdits ==
    {<<"autoSave", TRUE>>, <<"autoSave", FALSE>>}

\* hasUnsavedChanges
hasUnsavedChanges ==
    JSONstringify(JObj(settingsForm.tempSettings))
        # JSONstringify(JObj(appState.settings))

\* updateTempSetting(key, value), from a control's onChange
EditSetting(key, value) ==
    /\ phase = "ready"
    /\ NoContinuationDue
    /\ settingsForm.mounted
    /\ settingsForm.tempSettings[key] # value
    /\ settingsForm' = [settingsForm EXCEPT !.tempSettings[key] = value]
    /\ UNCHANGED <<probe, calls, store, storageOp, build, phase, route, appState,
                   viewer, card, sends, queued, apiForm>>

\* handleSave, from the Save Settings button (disabled without unsaved
\* changes), and the auto-save effect on the state it leaves
SaveSettings ==
    /\ phase = "ready"
    /\ NoContinuationDue
    /\ settingsForm.mounted
    /\ hasUnsavedChanges
    /\ appState' = updateSettings(appState, settingsForm.tempSettings)
    /\ store' = autoSave(store, appState')
    /\ UNCHANGED <<probe, calls, storageOp, build, phase, route, viewer, card, sends,
                   queued, settingsForm, apiForm>>

\* handleReset, from the Reset Changes button
ResetSettings ==
    /\ phase = "ready"
    /\ NoContinuationDue
    /\ settingsForm.mounted
    /\ hasUnsavedChanges
    /\ settingsForm' = [settingsForm EXCEPT !.tempSettings = appState.settings]
    /\ UNCHANGED <<probe, calls, store, storageOp, build, phase, route, appState,
                   viewer, card, sends, queued, apiForm>>

\* the calls that may be in flight at once while the settings are edited
MaxInFlight == 1

NextSettings ==
    \/ AppMount
    \/ AppLoaded
    \/ \E path \in Routes : Navigate(path)
    \/ \E i \in 1..Len(appState.graph.nodes) : NodeClick(i)
    \/ BackgroundClick
    \/ CloseChat
    \/ \E text \in InputTexts : TypeMessage(text)
    \/ Len(calls) < MaxInFlight /\ PressEnter
    \/ Len(calls) < MaxInFlight /\ ClickSend
    \/ \E c \in DOMAIN calls : ChatFetchResponds(c)
    \/ \E c \in DOMAIN calls : ChatFetchFails(c)
    \/ \E c \in DOMAIN calls : ChatJsonSettles(c)
    \/ \E c \in DOMAIN calls : ResumeSend(c)
    \/ \E e \in SettingEdits : EditSetting(e[1], e[2])
    \/ SaveSettings
    \/ ResetSettings

SpecSettings == Init /\ [][NextSettings]_vars

\* what the four slots hold when they hold the in-memory values of app
SlotsHold(st, app) ==
    /\ st[STORAGE_KEYS.GRAPH_DATA] = JSONstringify(JObj(app.graph))
    /\ st[STORAGE_KEYS.CHAT_HISTORY] = JSONstringify(JArr(app.chatSessions))
    /\ st[STORAGE_KEYS.AI_SERVICES] = JSONstringify(JArr(app.aiServices))
    /\ st[STORAGE_KEYS.SETTINGS] = JSONstringify(JObj(app.settings))

MaxTimers == 1

\* the values the API key input, the model select and the checkbox of a
\* service card hand to updateService
ServiceEdits ==
    {<<"apiKey", ValidOpenAIKey>>, <<"apiKey", ShortKey>>,
     <<"apiKey", ValidGeminiKey>>, <<"isEnabled", TRUE>>,
     <<"isEnabled", FALSE>>}

\* updateService(serviceName, {field: value}) on tempServices
updateService(tempServices, serviceName, field, value) ==
    [i \in DOMAIN tempServices |->
        IF tempServices[i].name = serviceName
        THEN [tempServices[i] EXCEPT ![field] = value]
        ELSE tempServices[i]]

\* a validation that lets every service through
invalidServices_none(tempServices) == <<>>

\* handleSave's invalidServices: the enabled services whose key fails
\* validateAPIKey
invalidServices(tempServices) ==
    LET Invalid(service) ==
            service.isEnabled /\ ~validateAPIKey(service.name, service.apiKey)
    IN  SelectSeq(tempServices, Invalid)

\* names.join(', ')
RECURSIVE joinNames(_)
joinNames(services) ==
    IF services = <<>> THEN ""
    ELSE IF Len(services) = 1 THEN Head(services).name
    ELSE Head(services).name \o ", " \o joinNames(Tail(services))

\* the message handleSave's catch block shows
InvalidKeysMessage(services) ==
    [type |-> "error", text |-> "Invalid API keys for: " \o joinNames(services)]

SavedMessage == [type |-> "success", text |-> "API settings saved successfully!"]

\* updateAIServices
updateAIServices(app, services) == [app EXCEPT !.aiServices = services]

\* hasUnsavedChanges of the APISettings view
hasUnsavedServiceChanges ==
    JSONstringify(JArr(apiForm.tempServices))
        # JSONstringify(JArr(appState.aiServices))

\* a control of a service card's onChange: the cards are those of
\* tempServices
EditService(i, field, value) ==
    /\ phase = "ready"
    /\ NoContinuationDue
    /\ apiForm.mounted
    /\ i \in DOMAIN apiForm.tempServices
    /\ apiForm.tempServices[i][field] # value
    /\ apiForm' = [apiForm EXCEPT
                      !.tempServices =
                          updateService(@, apiForm.tempServices[i].name,
                                        field, value)]
    /\ UNCHANGED <<probe, calls, store, storageOp, build, phase, route,
                   appState, viewer, card, sends, queued, settingsForm>>

\* handleSave, from the Save Settings button (disabled without unsaved
\* changes), and the auto-save effect on the state it leaves
SaveServices ==
    /\ phase = "ready"
    /\ NoContinuationDue
    /\ apiForm.mounted
    /\ hasUnsavedServiceChanges
    /\ IF invalidServices(apiForm.tempServices) # <<>>
       THEN /\ apiForm' = [apiForm EXCEPT
                              !.saveMessage =
                                  InvalidKeysMessage(
                                      invalidServices(apiForm.tempServices))]
            /\ UNCHANGED <<appState, store>>
       ELSE /\ apiForm.timers < MaxTimers
            /\ appState' = updateAIServices(appState, apiForm.tempServices)
            /\ apiForm' = [apiForm EXCEPT !.saveMessage = SavedMessage,
                                          !.timers = @ + 1]
            /\ store' = autoSave(store, appState')
    /\ UNCHANGED <<probe, calls, storageOp, build, phase, route, viewer, card,
                   sends, queued, settingsForm>>

\* the timeout set by a successful save fires
SaveMessageExpires ==
    /\ NoContinuationDue
    /\ apiForm.mounted
    /\ apiForm.timers > 0
    /\ apiForm' = [apiForm EXCEPT !.saveMessage = NoMessage,
                                  !.timers = @ - 1]
    /\ UNCHANGED <<probe, calls, store, storageOp, build, phase, route,
                   appState, viewer, card, sends, queued, settingsForm>>

\* handleReset, from the Reset Changes button
ResetServices ==
    /\ phase = "ready"
    /\ NoContinuationDue
    /\ apiForm.mounted
    /\ hasUnsavedServiceChanges
    /\ apiForm' = [apiForm EXCEPT !.tempServices = appState.aiServices,
                                  !.saveMessage = NoMessage]
    /\ UNCHANGED <<probe, calls, store, storageOp, build, phase, route,
                   appState, viewer, card, sends, queued, settingsForm>>

\* the values the Default AI Service select hands to updateTempSetting
DefaultServiceEdits ==
    {<<"defaultAIService", "openai">>, <<"defaultAIService", "gemini">>}

\* the application starts with no usable service list persisted, so that
\* loadInitialData falls back to the default list
InitServices ==
    /\ Init
    /\ store[STORAGE_KEYS.AI_SERVICES] \in {NoItem, GarbageText}

NextServices ==
    \/ AppMount
    \/ AppLoaded
    \/ \E path \in Routes : Navigate(path)
    \/ \E i \in 1..Len(apiForm.tempServices), e \in ServiceEdits :
           EditService(i, e[1], e[2])
    \/ SaveServices
    \/ SaveMessageExpires
    \/ ResetServices
    \/ \E e \in DefaultServiceEdits : EditSetting(e[1], e[2])
    \/ SaveSettings
    \/ \E i \in 1..Len(appState.graph.nodes) : NodeClick(i)
    \/ CloseChat

SpecServices == InitServices /\ [][NextServices]_vars

\* the configs of the list that carry the name
Named(services, name) == SelectSeq(services, LAMBDA sv : sv.name = name)

\* C21: once the startup load has completed, the configured service list
\* holds exactly one config named 'openai' and exactly one named 'gemini',
\* whatever routes were visited and whatever was edited, saved or reset in
\* the API-settings view, also when that view was mounted before the load
\* finished.
C21_OneConfigPerProvider ==
    phase = "ready" =>
        /\ Len(Named(appState.aiServices, "openai")) = 1
        /\ Len(Named(appState.aiServices, "gemini")) = 1

\* the API-settings view was mounted before the startup load finished, and
\* its Save has handed App the empty list it was mounted with
SavedTheListMountedWith ==
    /\ phase = "ready"
    /\ apiForm.mounted
    /\ apiForm.saveMessage = SavedMessage
    /\ appState.aiServices = <<>>

\* the service settings.defaultAIService names is in the list and enabled
DefaultServiceEnabled ==
    \E i \in DOMAIN appState.aiServices :
        /\ appState.aiServices[i].name = appState.settings.defaultAIService
        /\ appState.aiServices[i].isEnabled

\* C22: the service handed to a node chat that was just opened is the one
\* settings.defaultAIService names whenever that service is enabled, also
\* when both services are enabled; another service is handed over only when
\* the default one is not enabled.
C22_DefaultServiceIsHandedWhenEnabled ==
    (card.mounted /\ card = NewCard /\ DefaultServiceEnabled)
        => aiServiceProp.name = appState.settings.defaultAIService

\* a chat is open with both services enabled and 'gemini' the default
BothEnabledGeminiDefault ==
    /\ card.mounted
    /\ appState.settings.defaultAIService = "gemini"
    /\ \A i \in DOMAIN appState.aiServices : appState.aiServices[i].isEnabled
    /\ Len(appState.aiServices) = 2

\* the enabled services of the list whose key is not a key of their provider
Offending(services) ==
    SelectSeq(services,
              LAMBDA sv : sv.isEnabled /\ ~validateAPIKey(sv.name, sv.apiKey))

\* C28: a save in the API-settings view is all-or-nothing.  The app's
\* service list changes only by a save of an edited list none of whose
\* enabled services has a key failing validateAPIKey, and then becomes the
\* edited list; a save of a list with such a service leaves the app state
\* unchanged and shows an error message naming those services.  So, the
\* startup load having produced the default list, every enabled service of
\* the app state has a key that passes validateAPIKey.
C28_SaveIsAllOrNothing ==
    [][/\ (phase = "ready" /\ appState'.aiServices # appState.aiServices)
            => /\ apiForm.mounted
               /\ Offending(apiForm.tempServices) = <<>>
               /\ appState'.aiServices = apiForm.tempServices
       /\ (/\ apiForm.mounted
           /\ apiForm'.mounted
           /\ apiForm'.saveMessage # apiForm.saveMessage
           /\ apiForm'.saveMessage # NoMessage)
            => IF Offending(apiForm.tempServices) # <<>>
               THEN /\ appState' = appState
                    /\ apiForm'.saveMessage
                           = InvalidKeysMessage(Offending(apiForm.tempServices))
               ELSE /\ appState'.aiServices = apiForm.tempServices
                    /\ apiForm'.saveMessage = SavedMessage
       /\ phase' = "ready" => Offending(appState'.aiServices) = <<>>]_vars

\* a save was refused for the key of 'openai' while the app's list, saved
\* before, has 'gemini' enabled
C28_Witness ==
    /\ apiForm.mounted
    /\ apiForm.saveMessage.type = "error"
    /\ apiForm.saveMessage.text = "Invalid API keys for: openai"
    /\ Len(appState.aiServices) = 2
    /\ ~appState.aiServices[1].isEnabled
    /\ appState.aiServices[2].isEnabled

(***************************************************************************)
(* components/GraphViewer.tsx: the graph edits.  GraphViewer's own copy of *)
(* the graph is set from the graph prop after every render that changes    *)
(* it, so its handlers find in it what App holds; a node's position,       *)
(* colour and size are display only and a node is its id and label.        *)
(***************************************************************************)
\* the nodes the graph may hold while it is edited
MaxNodes == 2

STRENGTH == 1

\* the texts typed into the new-node input
NodeNames == {<<" ">>, <<" ", "A", "I", " ">>}

\* updateGraph
updateGraph(app, newGraph) == [app EXCEPT !.graph = newGraph]

newEdgeOf(id, sourceId, targetId) ==
    [id |-> id, source |-> sourceId, target |-> targetId,
     strength |-> STRENGTH]

\* an add that keeps the name as it was typed
handleAddNode_untrimmed(graph, selectedNode, newNodeInput, used) ==
    LET newNode == [id |-> generateId(used), label |-> newNodeInput]
        withNode == [graph EXCEPT !.nodes = Append(@, newNode)]
    IN  IF selectedNode # NoNode
        THEN [withNode EXCEPT
                 !.edges = Append(@, newEdgeOf(
                                         generateId(used \cup {newNode.id}),
                                         selectedNode.id, newNode.id))]
        ELSE withNode

\* handleAddNode: the graph it hands to onGraphUpdate, or the graph as it
\* is when it returns early
handleAddNode(graph, selectedNode, newNodeInput, used) ==
    IF trim(newNodeInput) = <<>> THEN graph
    ELSE LET newNode == [id |-> generateId(used),
                         label |-> trim(newNodeInput)]
             withNode == [graph EXCEPT !.nodes = Append(@, newNode)]
         IN  IF selectedNode # NoNode
             THEN [withNode EXCEPT
                      !.edges = Append(@, newEdgeOf(
                                              generateId(used \cup {newNode.id}),
                                              selectedNode.id, newNode.id))]
             ELSE withNode

\* handleAddEdge: the graph it hands to onGraphUpdate.  No control of the
\* view calls it.
handleAddEdge(graph, sourceId, targetId, used) ==
    [graph EXCEPT !.edges = Append(@, newEdgeOf(generateId(used),
                                                sourceId, targetId))]

\* a removal that leaves the edges alone
handleRemoveNode_keepEdges(graph, nodeId) ==
    [graph EXCEPT !.nodes = SelectSeq(@, LAMBDA n : n.id # nodeId)]

\* handleRemoveNode: the graph it hands to onGraphUpdate
handleRemoveNode(graph, nodeId) ==
    [nodes |-> SelectSeq(graph.nodes, LAMBDA n : n.id # nodeId),
     edges |-> SelectSeq(graph.edges,
                         LAMBDA e : e.source # nodeId /\ e.target # nodeId)]

\* the onAddRelatedNode GraphViewer hands to NodeChat: the graph it hands
\* to onGraphUpdate
onAddRelatedNode(graph, selectedNode, topic, used) ==
    LET newNode == [id |-> generateId(used), label |-> topic]
    IN  [graph EXCEPT
            !.nodes = Append(@, newNode),
            !.edges = Append(@, newEdgeOf(generateId(used \cup {newNode.id}),
                                          selectedNode.id, newNode.id))]

\* the new-node input's onChange
TypeNodeName(text) ==
    /\ phase = "ready"
    /\ NoContinuationDue
    /\ route = "/"
    /\ text # viewer.newNodeInput
    /\ viewer' = [viewer EXCEPT !.newNodeInput = text]
    /\ UNCHANGED <<calls, store, storageOp, build, phase, route, appState,
                   card, sends>>
    /\ UNCHANGED <<formVars, probe>>

\* handleAddNode, from the Add Node button or Enter in the new-node input,
\* and the auto-save effect on the state it leaves
AddNode ==
    /\ phase = "ready"
    /\ NoContinuationDue
    /\ route = "/"
    /\ LET newGraph == handleAddNode(appState.graph, appState.selectedNode,
                                     viewer.newNodeInput, UsedIds)
       IN  IF newGraph = appState.graph
           THEN UNCHANGED <<appState, viewer, store>>
           ELSE /\ Len(appState.graph.nodes) < MaxNodes
                /\ appState' = updateGraph(appState, newGraph)
                /\ viewer' = [viewer EXCEPT !.newNodeInput = <<>>]
                /\ store' = autoSave(store, appState')
    /\ UNCHANGED <<calls, storageOp, build, phase, route, card, sends>>
    /\ UNCHANGED <<formVars, probe>>

\* handleRemoveNode(selectedNode.id), from the Remove Node button, shown
\* while a node is selected
RemoveNode ==
    /\ phase = "ready"
    /\ NoContinuationDue
    /\ route = "/"
    /\ appState.selectedNode # NoNode
    /\ appState' = updateSelectedNode(
                       updateGraph(appState,
                           handleRemoveNode(appState.graph,
                                            appState.selectedNode.id)),
                       NoNode)
    /\ viewer' = [viewer EXCEPT !.showChat = FALSE]
    /\ card' = NoCard
    /\ sends' = Unmounted(sends)
    /\ store' = autoSave(store, appState')
    /\ UNCHANGED <<calls, storageOp, build, phase, route>>
    /\ UNCHANGED <<formVars, probe>>

\* handleAddTopic(topic), from a related-topic button of the node chat
AddRelatedNode(t) ==
    /\ card.mounted
    /\ NoContinuationDue
    /\ card.showRelatedTopics
    /\ t \in DOMAIN card.relatedTopics
    /\ Len(appState.graph.nodes) < MaxNodes
    /\ appState' = updateGraph(appState,
                       onAddRelatedNode(appState.graph, appState.selectedNode,
                                        card.relatedTopics[t], UsedIds))
    /\ card' = [card EXCEPT !.showRelatedTopics = FALSE]
    /\ store' = autoSave(store, appState')
    /\ UNCHANGED <<calls, storageOp, build, phase, route, viewer, sends>>
    /\ UNCHANGED <<formVars, probe>>

\* the application starts on the graph view with nothing persisted, or with
\* a graph and an enabled service
InitGraph ==
    /\ Init
    /\ build = "production"
    /\ route = "/"
    /\ store \in {FreshStore,
                  StoreHolding(JsonText(JObj(TwoNodeGraph)),
                               JsonText(JArr(ServiceLists[1])), NoItem)}

NextGraph ==
    \/ AppMount
    \/ AppLoaded
    \/ \E path \in {"/", "/settings"} : Navigate(path)
    \/ \E i \in 1..Len(appState.graph.nodes) : NodeClick(i)
    \/ BackgroundClick
    \/ CloseChat
    \/ \E text \in NodeNames : TypeNodeName(text)
    \/ AddNode
    \/ RemoveNode
    \/ \E t \in 1..Len(card.relatedTopics) : AddRelatedNode(t)
    \/ TypeMessage(<<" ", "h", "i">>)
    \/ calls = <<>> /\ appState.chatSessions = <<>> /\ ClickSend
    \/ \E c \in DOMAIN calls : ChatFetchResponds(c)
    \/ \E c \in DOMAIN calls : ChatJsonSettles(c)
    \/ \E c \in DOMAIN calls : ResumeSend(c)

SpecGraph == InitGraph /\ [][NextGraph]_vars

NodeIds(graph) == {graph.nodes[i].id : i \in DOMAIN graph.nodes}

AddedAsNamed ==
    LET name == trim(viewer.newNodeInput)
        old == appState.graph
        new == appState'.graph
    IN  /\ name # <<>>
        /\ Len(new.nodes) = Len(old.nodes) + 1
        /\ SubSeq(new.nodes, 1, Len(old.nodes)) = old.nodes
        /\ new.nodes[Len(new.nodes)].label = name
        /\ IF appState.selectedNode # NoNode
           THEN /\ Len(new.edges) = Len(old.edges) + 1
                /\ SubSeq(new.edges, 1, Len(old.edges)) = old.edges
                /\ new.edges[Len(new.edges)].source = appState.selectedNode.id
                /\ new.edges[Len(new.edges)].target
                       = new.nodes[Len(new.nodes)].id
           ELSE new.edges = old.edges

\* C23: adding a node with a non-blank name adds exactly one node, whose
\* label is the trimmed name, and exactly one edge from the selected node
\* to it if a node is selected, no edge otherwise; the nodes and edges
\* there were are left as they were; adding with an empty or all-whitespace
\* name changes neither nodes nor edges.  A step that changes the graph
\* and is neither a removal nor the addition of a related topic (which
\* hides the chat's topic buttons) is such an addition.
C23_AddNodeAddsOneNamedNode ==
    [][(/\ phase = "ready"
        /\ appState'.graph # appState.graph
        /\ card' = card
        /\ Len(appState'.graph.nodes) >= Len(appState.graph.nodes))
         => AddedAsNamed]_vars

\* a node named " AI " was added while a node was selected: an edge leads
\* to a node labelled "AI", and the input is empty again
C23_Witness ==
    /\ phase = "ready"
    /\ viewer.newNodeInput = <<>>
    /\ \E e \in DOMAIN appState.graph.edges, n \in DOMAIN appState.graph.nodes :
           /\ appState.graph.edges[e].target = appState.graph.nodes[n].id
           /\ appState.graph.nodes[n].label = <<"A", "I">>

(***************************************************************************)
(* components/ChatHistory.tsx: the session list with its Continue Chat and *)
(* Delete buttons, and the page reloaded, which starts the application on  *)
(* the store the run before left.  The search box, the node filter and the *)
(* selected session are display only.                                      *)
(***************************************************************************)
\* the sessions the list may hold while Continue Chat is clicked
MaxSessions == 3

\* the Continue Chat button of the i-th session: onChatSession(session),
\* which is App's addChatSession, and the auto-save effect
ContinueChat(i) ==
    /\ phase = "ready"
    /\ NoContinuationDue
    /\ route = "/chat-history"
    /\ i \in DOMAIN appState.chatSessions
    /\ Len(appState.chatSessions) < MaxSessions
    /\ appState' = addChatSession(appState, appState.chatSessions[i])
    /\ store' = autoSave(store, appState')
    /\ UNCHANGED <<calls, storageOp, build, phase, route, viewer, card, sends>>
    /\ UNCHANGED <<formVars, probe>>

\* handleDeleteSession(session.id), from the Delete button: it logs the id
DeleteSession(i) ==
    /\ phase = "ready"
    /\ NoContinuationDue
    /\ route = "/chat-history"
    /\ i \in DOMAIN appState.chatSessions
    /\ UNCHANGED vars

\* the browser reloads the page: the application starts again, at the same
\* path, on the store as it is; the calls of the old page are gone
Reload ==
    /\ phase = "ready"
    /\ NoContinuationDue
    /\ phase' = "initial"
    /\ appState' = InitialAppState
    /\ viewer' = NewViewer
    /\ card' = NoCard
    /\ calls' = <<>>
    /\ sends' = <<>>
    /\ queued' = <<>>
    /\ settingsForm' = IF route = "/settings" THEN NewForm(InitialAppState.settings)
                       ELSE NoForm
    /\ apiForm' = IF route = "/api-settings"
                  THEN NewApiForm(InitialAppState.aiServices)
                  ELSE NoApiForm
    /\ UNCHANGED <<store, storageOp, build, route, probe>>

\* the application starts on the graph view of a production build, with a
\* graph and an enabled service persisted
InitHistory ==
    /\ Init
    /\ build = "production"
    /\ route = "/"
    /\ store = StoreHolding(JsonText(JObj(TwoNodeGraph)),
                            JsonText(JArr(ServiceLists[1])), NoItem)

NextHistory ==
    \/ AppMount
    \/ AppLoaded
    \/ \E path \in {"/", "/chat-history"} : Navigate(path)
    \/ \E i \in 1..Len(appState.graph.nodes) : NodeClick(i)
    \/ TypeMessage(<<" ", "h", "i">>)
    \/ calls = <<>> /\ ClickSend
    \/ \E c \in DOMAIN calls : ChatFetchResponds(c)
    \/ \E c \in DOMAIN calls : ChatJsonSettles(c)
    \/ \E c \in DOMAIN calls : ResumeSend(c)
    \/ \E i \in 1..Len(appState.chatSessions) : ContinueChat(i)
    \/ \E i \in 1..Len(appState.chatSessions) : DeleteSession(i)
    \/ Reload

SpecHistory == InitHistory /\ [][NextHistory]_vars

\* C27: after any sequence of successful chat exchanges and Continue Chat
\* and Delete actions of the chat history view, the ids of the sessions of
\* the app's list are pairwise distinct, and while the application runs
\* the list is changed by a successful chat exchange only.
C27_SessionIdsDistinctListChangedByExchangesOnly ==
    [][/\ \A i, j \in DOMAIN appState'.chatSessions :
              appState'.chatSessions[i].id = appState'.chatSessions[j].id
                  => i = j
       /\ (/\ phase = "ready"
           /\ phase' = "ready"
           /\ appState'.chatSessions # appState.chatSessions)
            => \E c \in DOMAIN calls :
                   /\ calls[c].pc = "fulfilled"
                   /\ Len(calls') < Len(calls)]_vars

\* the sessions of a list hold Date values where the types declare them
HoldDates(sessions) ==
    \A i \in DOMAIN sessions :
        /\ sessions[i].createdAt.t = "date"
        /\ sessions[i].updatedAt.t = "date"
        /\ \A m \in DOMAIN sessions[i].messages :
               sessions[i].messages[m].timestamp.t = "date"

\* C30: every chat session the app state holds, made in this run or loaded
\* from the chat-history slot at startup, has Date values as createdAt, as
\* updatedAt and as the timestamp of every message; and what the
\* chat-history slot holds once the list was saved gives, loaded back,
\* sessions equal to those saved, timestamps included.
C30_SessionsKeepTheirDates ==
    /\ HoldDates(appState.chatSessions)
    /\ (/\ phase = "ready"
        /\ store[STORAGE_KEYS.CHAT_HISTORY]
               = JSONstringify(JArr(appState.chatSessions)))
         => slotLoad(store, STORAGE_KEYS.CHAT_HISTORY).value.v
                = appState.chatSessions

\* a session saved by the run before has been loaded at startup: its dates
\* are strings
LoadedSessionHoldsStrings ==
    /\ phase = "ready"
    /\ Len(appState.chatSessions) = 1
    /\ appState.chatSessions[1].createdAt.t = "string"
    /\ appState.chatSessions[1].messages[1].timestamp.t = "string"

(***************************************************************************)
(* The helper functions of aiService.ts applied on their own: the provider *)
(* names and key strings a caller can hand validateAPIKey.                 *)
(***************************************************************************)
MaxKeyLength == 22

ProbeServices == {"openai", "gemini", "claude", "OpenAI", ""}

KeyPrefixes ==
    {<<>>, SK_PREFIX, <<"S", "K", "-">>, <<" ">>, <<" ", "s", "k", "-">>}

\* keys of every length up to MaxKeyLength after their prefix, of solid
\* characters or of spaces
ProbeKeys ==
    {prefix \o Repeat(c, n) :
         prefix \in KeyPrefixes, c \in {"x", " "}, n \in 0..MaxKeyLength}

\* validateAPIKey(service, apiKey)
Validate ==
    /\ probe.fn = "validateAPIKey"
    /\ ~probe.done
    /\ probe' = [probe EXCEPT
                    !.done = TRUE,
                    !.result = validateAPIKey(probe.service, probe.input)]
    /\ UNCHANGED <<calls, storageVars, uiVars>>

\* the key is empty or all-whitespace
BlankKey(k) == \A i \in DOMAIN k : k[i] \in {" ", "\t", "\n", "\r"}

Validated(service) ==
    probe.fn = "validateAPIKey" /\ probe.done /\ probe.service = service

\* C13: validateAPIKey('openai', k) is true exactly when k is not blank,
\* begins with the three characters s, k, - and has more than 20 characters.
C13_OpenAIKeyRule ==
    Validated("openai") =>
        (probe.result = TRUE <=>
             /\ ~BlankKey(probe.input)
             /\ Len(probe.input) >= 3
             /\ probe.input[1] = "s" /\ probe.input[2] = "k"
             /\ probe.input[3] = "-"
             /\ Len(probe.input) > 20)

\* a key of exactly 21 characters with the prefix is accepted for openai
C13_Witness ==
    /\ Validated("openai")
    /\ Len(probe.input) = 21
    /\ probe.input = SK_PREFIX \o Repeat("x", 18)
    /\ probe.result = TRUE

\* C14: validateAPIKey('gemini', k) is true exactly when k is not blank and
\* has more than 20 characters, whatever its prefix.
C14_GeminiKeyRule ==
    Validated("gemini") =>
        (probe.result = TRUE <=>
             ~BlankKey(probe.input) /\ Len(probe.input) > 20)

\* a key of 22 spaces is rejected for gemini
C14_Witness ==
    /\ Validated("gemini")
    /\ probe.input = Repeat(" ", 22)
    /\ probe.result = FALSE

\* C15: validateAPIKey returns a Boolean for every provider name and key,
\* and returns false for every provider name other than openai and gemini.
C15_UnknownProviderRejected ==
    (probe.fn = "validateAPIKey" /\ probe.done) =>
        /\ probe.result \in BOOLEAN
        /\ probe.service \notin {"openai", "gemini"} => probe.result = FALSE

\* a long key with the sk- prefix is rejected for an unknown provider
C15_Witness ==
    /\ Validated("claude")
    /\ probe.input = SK_PREFIX \o Repeat("x", 20)
    /\ probe.result = FALSE

(***************************************************************************)
(* The texts a caller can hand extractRelatedTopics: up to MaxLines lines  *)
(* of ProbeLines joined by line feeds.                                     *)
(***************************************************************************)
MaxLines == 2

ProbeLines ==
    << ReplyKeywordLine,
       \* "See Also: Art, Go, Music"
       <<"S", "e", "e", " ", "A", "l", "s", "o", ":", " ", "A", "r", "t",
         ",", " ", "G", "o", ",", " ", "M", "u", "s", "i", "c">>,
       \* "Paris and Rome are Big"
       <<"P", "a", "r", "i", "s", " ", "a", "n", "d", " ", "R", "o", "m",
         "e", " ", "a", "r", "e", " ", "B", "i", "g">>,
       \* "Concepts: Go."
       <<"C", "o", "n", "c", "e", "p", "t", "s", ":", " ", "G", "o", ".">>,
       \* "Similar to: nothing!"
       <<"S", "i", "m", "i", "l", "a", "r", " ", "t", "o", ":", " ", "n",
         "o", "t", "h", "i", "n", "g", "!">>,
       \* "topics: Go, Aaa, Bbb, Ccc, Ddd, Eee, Fff"
       <<"t", "o", "p", "i", "c", "s", ":", " ", "G", "o", ",", " ", "A",
         "a", "a", ",", " ", "B", "b", "b", ",", " ", "C", "c", "c", ",",
         " ", "D", "d", "d", ",", " ", "E", "e", "e", ",", " ", "F", "f",
         "f">>,
       \* "Aa Bbb Ccc Ddd Eee Fff Ggg"
       <<"A", "a", " ", "B", "b", "b", " ", "C", "c", "c", " ", "D", "d",
         "d", " ", "E", "e", "e", " ", "F", "f", "f", " ", "G", "g", "g">>,
       \* "topics: Art, Art."
       <<"t", "o", "p", "i", "c", "s", ":", " ", "A", "r", "t", ",", " ",
         "A", "r", "t", ".">>,
       \* "connected to Big  Data , X."
       <<"c", "o", "n", "n", "e", "c", "t", "e", "d", " ", "t", "o", " ",
         "B", "i", "g", " ", " ", "D", "a", "t", "a", " ", ",", " ", "X",
         ".">>,
       \* ""
       <<>> >>

\* lines.join('\n')
RECURSIVE joinLines(_)
joinLines(lines) ==
    IF Len(lines) = 1 THEN lines[1]
    ELSE lines[1] \o <<"\n">> \o joinLines(Tail(lines))

ProbeTexts ==
    {joinLines([n \in DOMAIN pick |-> ProbeLines[pick[n]]]) :
         pick \in UNION {[1..len -> DOMAIN ProbeLines] : len \in 1..MaxLines}}

\* extractRelatedTopics(content); `candidates` is what its loop over the
\* lines has pushed when the loop ends
Extract ==
    /\ probe.fn = "extractRelatedTopics"
    /\ ~probe.done
    /\ probe' = [probe EXCEPT
                    !.done = TRUE,
                    !.candidates = keywordTopics(splitLines(probe.input)),
                    !.result = extractRelatedTopics(probe.input)]
    /\ UNCHANGED <<calls, storageVars, uiVars>>

InitPure ==
    /\ calls = <<>>
    /\ store = FreshStore
    /\ storageOp = NoOp
    /\ UIIdle
    /\ probe \in {Pending("validateAPIKey", service, apiKey) :
                      service \in ProbeServices, apiKey \in ProbeKeys}
                 \cup {Pending("extractRelatedTopics", "", content) :
                           content \in ProbeTexts}

NextPure == Validate \/ Extract

SpecPure == InitPure /\ [][NextPure]_vars

Extracted == probe.fn = "extractRelatedTopics" /\ probe.done

LongerThanTwo(topic) == Len(topic) > 2

FirstFive(a) == [i \in 1..(IF Len(a) < 5 THEN Len(a) ELSE 5) |-> a[i]]

\* C16: the extractor returns at most 5 topics, each longer than 2
\* characters and not blank, and they are the first (at most 5) candidates
\* longer than 2 characters, in the order and as often as they were found.
C16_OutputIsFirstFiveLongCandidates ==
    Extracted =>
        /\ Len(probe.result) <= 5
        /\ \A i \in DOMAIN probe.result :
               /\ Len(probe.result[i]) > 2
               /\ ~BlankKey(probe.result[i])
        /\ probe.result
               = FirstFive(SelectSeq(candidateTopics(probe.input),
                                     LongerThanTwo))

\* a text with a short candidate and six long ones: five topics come back
C16_Witness ==
    /\ Extracted
    /\ Len(candidateTopics(probe.input)) > 6
    /\ \E i \in 1..5 : ~LongerThanTwo(candidateTopics(probe.input)[i])
    /\ Len(probe.result) = 5

\* C17: when the loop over the lines pushed nothing, the topics are the
\* first 5 capitalized words of the text that are longer than 2 characters;
\* when it pushed something, they are the first 5 pushed candidates longer
\* than 2 characters and no capitalized word is added.
C17_FallbackOnlyWithoutKeywordCandidates ==
    Extracted =>
        probe.result
            = IF probe.candidates = <<>>
              THEN SelectSeq(FirstFive(capitalizedWordsFrom(probe.input, 1)),
                             LongerThanTwo)
              ELSE FirstFive(SelectSeq(probe.candidates, LongerThanTwo))

\* a keyword line whose only candidate is too short, in a text with a longer
\* capitalized word: nothing comes back
C17_Witness ==
    /\ Extracted
    /\ probe.candidates # <<>>
    /\ SelectSeq(probe.candidates, LongerThanTwo) = <<>>
    /\ SelectSeq(capitalizedWordsFrom(probe.input, 1), LongerThanTwo) # <<>>
    /\ probe.result = <<>>

\* the keyword occurs in the line at offset off, whatever the line's case
KeywordAt(line, keyword, off) ==
    /\ off + Len(keyword) - 1 <= Len(line)
    /\ \A p \in DOMAIN keyword : LowerChar(line[off + p - 1]) = keyword[p]

ContainsKeyword(line) ==
    \E k \in DOMAIN topicKeywords, off \in DOMAIN line :
        KeywordAt(line, topicKeywords[k], off)

\* line[i..j] starts with an uppercase letter, continues with letters or
\* spaces and is followed by a comma, a period or the end of the line
TopicSpan(line, i, j) ==
    /\ i < j
    /\ IsUpper(line[i])
    /\ \A k \in (i + 1)..j : IsLetter(line[k]) \/ IsSpace(line[k])
    /\ j = Len(line) \/ line[j + 1] \in {",", "."}

\* the spans a left-to-right scan finds: of the spans ending at the same
\* place, the one that starts first
TopicSpans(line) ==
    {span \in (DOMAIN line) \X (DOMAIN line) :
         /\ TopicSpan(line, span[1], span[2])
         /\ \A h \in 1..(span[1] - 1) : ~TopicSpan(line, h, span[2])}

RECURSIVE LeftToRight(_)
LeftToRight(spans) ==
    IF spans = {} THEN <<>>
    ELSE LET first == CHOOSE x \in spans : \A y \in spans : x[1] <= y[1]
         IN  <<first>> \o LeftToRight(spans \ {first})

LineTopics(line) ==
    LET spans == LeftToRight(TopicSpans(line))
    IN  [n \in DOMAIN spans |-> trim(SubSeq(line, spans[n][1], spans[n][2]))]

RECURSIVE TopToBottom(_)
TopToBottom(lines) ==
    IF lines = <<>> THEN <<>>
    ELSE (IF ContainsKeyword(Head(lines)) THEN LineTopics(Head(lines))
          ELSE <<>>) \o TopToBottom(Tail(lines))

\* C18: the loop over the lines pushes, line by line from the top and from
\* left to right within a line, the trimmed text of every span of a line
\* holding one of the six keywords in any case, where a span starts with an
\* uppercase letter, continues with letters or spaces and is followed by a
\* comma, a period or the end of the line; other lines push nothing.
C18_KeywordLinesGiveTheirSpans ==
    Extracted => probe.candidates = TopToBottom(splitLines(probe.input))

\* "This topic is related to: Mathematics, Physics." gives Mathematics, then
\* Physics
C18_Witness ==
    /\ Extracted
    /\ probe.input = ReplyKeywordLine
    /\ probe.candidates
           = << <<"M", "a", "t", "h", "e", "m", "a", "t", "i", "c", "s">>,
                <<"P", "h", "y", "s", "i", "c", "s">> >>
    /\ probe.result = probe.candidates

(***************************************************************************)
(* The node chat's sends, under Spec.                                      *)
(***************************************************************************)
\* the calls the mounted card has made that handleSendMessage still awaits
\* or has yet to resume from
LiveSends == {c \in DOMAIN sends : sends[c].live}

\* C7: a mounted node chat card has at most one dispatcher call outstanding:
\* while its call is outstanding the card is loading, its input and send
\* button are disabled and so no second send starts from it; once the call
\* has resolved or failed and handleSendMessage has returned, the input is
\* enabled again.  (A card that was closed takes its call with it: the card
\* opened next is another card.)
C7_OneOutstandingCallPerCard ==
    /\ Cardinality(LiveSends) <= 1
    /\ ~card.mounted => LiveSends = {}
    /\ card.mounted =>
          /\ card.isLoading <=> LiveSends # {}
          /\ LiveSends # {} => inputDisabled(card) /\ sendButtonDisabled(card)
          /\ LiveSends = {} => ~inputDisabled(card)

\* a card whose first exchange has ended awaits the call of its second send
C7_Witness ==
    /\ card.mounted
    /\ card.isLoading
    /\ Len(card.messages) = 3
    /\ \E c \in LiveSends : calls[c].pc = "fetch"

\* C8: when the call of a send has failed, handleSendMessage's resumption
\* appends to the card (if it is still mounted) exactly one assistant-role
\* message carrying the failure notice, directly after the user's message
\* of that send, leaves the related topics as displayed, adds no chat
\* session to the app state (nor to the store), and neither sends another
\* request for the call nor starts another call.
C8_FailedSendShowsOneNotice ==
    [][\A c \in DOMAIN calls :
          calls[c].pc = "rejected" =>
             /\ sends[c].live =>
                   /\ card.messages[Len(card.messages)] = sends[c].userMessage
                   /\ Len(card'.messages) = Len(card.messages) + 1
                   /\ SubSeq(card'.messages, 1, Len(card.messages))
                          = card.messages
                   /\ card'.messages[Len(card'.messages)].role = "assistant"
                   /\ card'.messages[Len(card'.messages)].content
                          = FailureNotice
                   /\ card'.relatedTopics = card.relatedTopics
                   /\ card'.showRelatedTopics = card.showRelatedTopics
             /\ ~sends[c].live => card' = card
             /\ appState' = appState
             /\ store' = store
             /\ Len(calls[c].requests) <= 1
             /\ calls' = RemoveAt(calls, c)]_vars

\* a mounted card shows the failure notice after the user's message, no
\* call is left and no session was emitted
C8_Witness ==
    /\ card.mounted
    /\ ~card.isLoading
    /\ Len(card.messages) = 2
    /\ card.messages[1].role = "user"
    /\ card.messages[2].role = "assistant"
    /\ card.messages[2].content = FailureNotice
    /\ calls = <<>>
    /\ appState.chatSessions = <<>>

\* C9: every dispatcher call the application has made and not yet returned
\* from was made with an enabled service whose API key passes validateAPIKey,
\* and so is every request sent for it.
C9_NoCallWithUnvalidatedService ==
    \A c \in DOMAIN calls :
        /\ calls[c].service.isEnabled
        /\ validateAPIKey(calls[c].service.name, calls[c].service.apiKey)

\* a request is in flight for a send, made with a validated service
C9_Witness ==
    \E c \in DOMAIN calls :
        /\ calls[c].pc = "fetch"
        /\ Len(calls[c].requests) = 1
        /\ calls[c].service.isEnabled
        /\ validateAPIKey(calls[c].service.name, calls[c].service.apiKey)

\* an enabled service with a malformed key is handed to a mounted card:
\* the chat input is not rendered
SendBlockedByMalformedKey ==
    /\ card.mounted
    /\ aiServiceProp.isEnabled
    /\ ~validateAPIKey(aiServiceProp.name, aiServiceProp.apiKey)
    /\ ~isAIConfigured(aiServiceProp)

\* a is b or b with messages left off its end
IsPrefix(a, b) == Len(a) <= Len(b) /\ SubSeq(b, 1, Len(a)) = a

\* handleSendMessage is about to resume from call c, which succeeded
ExchangeSucceeds(c) == calls[c].pc = "fulfilled" /\ calls' # calls

\* the conversation that made call c held an assistant's reply when it made
\* it: an exchange of that conversation succeeded before
HasEarlierExchange(c) ==
    \E k \in DOMAIN sends[c].messages :
        "relatedTopics" \in DOMAIN sends[c].messages[k]

\* the slot holds what an earlier run saved
HoldsData(item) == item \notin {NoItem, GarbageText}

\* C24: at startup the four slots are read before any auto-save write.  The
\* mount effects, run once or twice, leave every slot that holds persisted
\* data as it is, and the state App holds once startup has finished is the
\* one the first run of the load effect read, from the slots as they were
\* before startup: the initial empty state has not replaced what was
\* persisted, in the store or in memory.
C24_StartupKeepsPersistedData ==
    [][/\ (phase = "initial" /\ phase' = "mounted")
            => \A k \in StorageKeys : HoldsData(store[k]) => store'[k] = store[k]
       /\ (phase = "mounted" /\ phase' = "ready")
            => appState' = Head(queued)]_vars

\* the messages handleSendMessage puts before the new user message in the
\* context of a call: those the card shows, in the card's order
ContextOf(c) == sends[c].messages

\* C26: in the node chat every message of the displayed list, and every
\* message sent as conversation context, belongs to the node the chat
\* shows: its nodeId is the id of the selected node, whatever nodes were
\* selected, also while the chat was open or a call was outstanding.
C26_MessagesBelongToShownNode ==
    card.mounted =>
        /\ \A i \in DOMAIN card.messages :
               card.messages[i].nodeId = appState.selectedNode.id
        /\ \A c \in DOMAIN sends :
               sends[c].live =>
                   \A i \in DOMAIN ContextOf(c) :
                       ContextOf(c)[i].nodeId = sends[c].node.id

\* the list alternates user, assistant, user, assistant
Alternates(messages) ==
    \A i \in DOMAIN messages :
        messages[i].role = IF i % 2 = 1 THEN "user" ELSE "assistant"

\* C29: in a node chat a send with non-blank input, to an enabled service,
\* appends exactly one user message at once, and the end of its call
\* appends exactly one assistant message, the reply or the failure notice;
\* nothing else changes the list of a card that stays open, so a send with
\* blank input, no service or a disabled service changes nothing.  Whenever
\* no call of the card is outstanding the list has even length and
\* alternates user, assistant.
C29_MessagesAlternate ==
    [][/\ (card'.mounted /\ \A c \in DOMAIN sends' : ~sends'[c].live)
            => /\ Len(card'.messages) % 2 = 0
               /\ Alternates(card'.messages)
       /\ (card.mounted /\ card'.mounted /\ card'.messages # card.messages)
            => /\ Len(card'.messages) = Len(card.messages) + 1
               /\ SubSeq(card'.messages, 1, Len(card.messages)) = card.messages
               /\ LET added == card'.messages[Len(card'.messages)]
                  IN  \/ /\ added.role = "user"
                         /\ added.content = trim(card.inputMessage)
                         /\ trim(card.inputMessage) # <<>>
                         /\ aiServiceProp # NoService
                         /\ aiServiceProp.isEnabled
                         /\ Len(calls') = Len(calls) + 1
                      \/ /\ added.role = "assistant"
                         /\ Len(calls') = Len(calls) - 1
                         /\ \E c \in LiveSends :
                                \/ /\ calls[c].pc = "fulfilled"
                                   /\ added.content = calls[c].value.content
                                \/ /\ calls[c].pc = "rejected"
                                   /\ added.content = FailureNotice]_vars

\* two sends of one card have ended, the first with the failure notice and
\* the second with a reply
C29_Witness ==
    /\ card.mounted
    /\ LiveSends = {}
    /\ Len(card.messages) = 4
    /\ card.messages[2].content = FailureNotice
    /\ card.messages[4].content # FailureNotice

\* C20: the sessions of the history stay in place and keep their messages,
\* in order, at the front of what they hold; a successful exchange of a
\* conversation that has no session yet adds one session, and a successful
\* exchange of a conversation that has one adds no session but appends its
\* user message and the assistant's reply to that session.
C20_SessionPerConversationGrowsByAppend ==
    [][LET old == appState.chatSessions
           new == appState'.chatSessions
       IN  /\ \A i \in DOMAIN old :
                  /\ i \in DOMAIN new
                  /\ new[i].id = old[i].id
                  /\ new[i].nodeId = old[i].nodeId
                  /\ IsPrefix(old[i].messages, new[i].messages)
           /\ \A c \in DOMAIN calls :
                  ExchangeSucceeds(c) =>
                      IF HasEarlierExchange(c)
                      THEN /\ Len(new) = Len(old)
                           /\ \E i \in DOMAIN old :
                                  new[i].messages
                                      = old[i].messages
                                          \o <<sends[c].userMessage,
                                               assistantMessageOf(
                                                   sends[c].node,
                                                   calls[c].value)>>
                      ELSE Len(new) = Len(old) + 1]_vars

\* the second successful exchange of one conversation has left two sessions
\* in the history, the second repeating the messages of the first
TwoSessionsForOneConversation ==
    /\ card.mounted
    /\ Len(card.messages) = 4
    /\ Len(appState.chatSessions) = 2
    /\ appState.chatSessions[2].messages = card.messages
    /\ appState.chatSessions[1].messages = SubSeq(card.messages, 1, 2)

====
